---- MODULE Spec2Model ----
(***************************************************************************)
(* Session lifecycle management of the REST backend: the volatile session  *)
(* store (app/session_store.py), the persistent session store              *)
(* (app/db_session_store.py, app/models.py), and the request guards and    *)
(* session-management handlers built on the persistent store               *)
(* (app/security.py, app/routers/secure_auth.py).                          *)
(*                                                                         *)
(* Time is a discrete clock counted in seconds, read once per step; it     *)
(* advances TickSeconds at a time.  A uuid4 session id is a fresh number   *)
(* taken from a counter; 0 stands for a missing/empty id.                  *)
(* Every store operation is applied, with the same arguments, to both      *)
(* backends in the same step.                                              *)
(*                                                                         *)
(* The specifications share the state: Spec (the store calls on both       *)
(* backends), SpecRequests (the guards and terminate-session),             *)
(* SpecSessions (login, extend-session, logout, logout-all, on a clock     *)
(* that advances one session lifetime at a time), SpecLifetime (the store  *)
(* calls with the history of each created id kept), SpecSweep (the gated   *)
(* sweep of the volatile store on a finer clock), SpecCredentials          *)
(* (passwords checked against stored digests), SpecTokens (bearer tokens   *)
(* next to the session store), SpecThreads (the volatile store called by   *)
(* several threads, one dict access per step) and SpecInterleaved (the     *)
(* persistent store called by several threads, one query or commit per     *)
(* step).                                                                  *)
(***************************************************************************)
EXTENDS Integers, FiniteSets, Sequences, TLC

\* ---------------------------------------------------------------- bounds
\* the number of session ids ever created
MaxSessions == 2
\* the number of clock ticks
MaxTicks == 3
\* the number of distinct values of the minutes argument
MaxMinutes == 1

\* ------------------------------------------------------- program constants
\* SessionStore._cleanup_interval, in seconds
CleanupInterval == 300
\* timedelta(minutes=m) is m * 60 seconds
SecondsPerMinute == 60
\* the smallest minutes value the extend policy admits
MinExtendMinutes == 5
\* a falsy session id (None or the empty string)
NoId == 0
\* security.ACCESS_TOKEN_EXPIRE_MINUTES, the lifetime of a login session
AccessTokenExpireMinutes == 30
\* the minutes DatabaseSessionStore.extend_session takes when given none
DefaultExtendMinutes == 30
\* the largest minutes value the extend policy admits
MaxExtendMinutes == 480
\* SessionStore.create_session: the default of expires_in_minutes
MemDefaultExpiresInMinutes == 30
\* DatabaseSessionStore._default_expires_minutes
DbDefaultExpiresMinutes == 30
\* no minutes argument given
NoMinutes == 0

\* The clock is read once per cleanup interval.
TickSeconds == CleanupInterval
EndOfTime == MaxTicks * TickSeconds

Emails == {"alice", "bob"}
SessionIds == 1..MaxSessions
PresentedIds == {NoId} \cup SessionIds
Minutes == {MinExtendMinutes * k : k \in 1..MaxMinutes}
Timedelta(minutes) == minutes * SecondsPerMinute

VARIABLES
    now,            \* the wall clock
    next_id,        \* the next fresh uuid4
    mem_sessions,   \* SessionStore._sessions: session id -> dict
    last_cleanup,   \* SessionStore._last_cleanup
    db_rows,        \* the sessions table: session id -> row
    call,           \* the last operation and its arguments
    mem_ret,        \* what the volatile backend returned to the last call
    db_ret,         \* what the persistent backend returned to the last call
    http,           \* the response of the last request handler
    mem_revoked,    \* ids for which the volatile delete_session returned True
    db_revoked,     \* ids for which the persistent delete_session returned True
    life,           \* what has been done to each id so far (kept when life.on)
    tokens,         \* the bearer tokens create_access_token has issued
    threads         \* each thread's operation in progress: position and locals

vars == <<now, next_id, mem_sessions, last_cleanup, db_rows, call, mem_ret,
          db_ret, http, mem_revoked, db_revoked, life, tokens, threads>>

\* ------------------------------------------------------- returned values
RetNone == [kind |-> "none"]
RetBool(b) == [kind |-> "bool", b |-> b]
RetCount(n) == [kind |-> "count", n |-> n]
RetId(sid) == [kind |-> "id", sid |-> sid]
RetList(l) == [kind |-> "list", sessions |-> l]
RetSession(d) == [kind |-> "session", data |-> d]
\* the call did not return: an exception left it
RetRaised == [kind |-> "raised"]
NotCalled == [kind |-> "not_called"]
NoResponse == [status |-> 0, detail |-> "", user |-> "", session_id |-> NoId]

\* dict / table helpers
Remove(f, ks) == [k \in (DOMAIN f) \ ks |-> f[k]]
Put(f, k, v) == [x \in (DOMAIN f) \cup {k} |-> IF x = k THEN v ELSE f[x]]

\* ============================================================ volatile backend

MemExpired(session, t) == t > session.expires_at

\* (mutation: the sweep runs whenever it is called)
MemCleanupUngated(S, lc, t) ==
    [sessions |-> Remove(S, {sid \in DOMAIN S : MemExpired(S[sid], t)}),
     last_cleanup |-> t]

MemCleanupExpiredSessions(S, lc, t) ==
    IF t - lc < CleanupInterval
    THEN [sessions |-> S, last_cleanup |-> lc]
    ELSE [sessions |-> Remove(S, {sid \in DOMAIN S : MemExpired(S[sid], t)}),
          last_cleanup |-> t]

MemCreateSession(S, lc, sid, email, minutes, t) ==
    LET inserted == Put(S, sid, [user_email |-> email, created_at |-> t,
                                 expires_at |-> t + Timedelta(minutes), last_accessed |-> t])
        swept == MemCleanupExpiredSessions(inserted, lc, t)
    IN [sessions |-> swept.sessions, last_cleanup |-> swept.last_cleanup,
        ret |-> RetId(sid)]

MemDeleteSession(S, sid) ==
    IF sid \in DOMAIN S
    THEN [sessions |-> Remove(S, {sid}), ret |-> RetBool(TRUE)]
    ELSE [sessions |-> S, ret |-> RetBool(FALSE)]

\* (mutation: a lookup renews the expiry of the record it returns)
MemGetSessionSliding(S, sid, t) ==
    IF sid = NoId \/ sid \notin DOMAIN S
    THEN [sessions |-> S, ret |-> RetNone]
    ELSE IF MemExpired(S[sid], t)
         THEN [sessions |-> MemDeleteSession(S, sid).sessions, ret |-> RetNone]
         ELSE LET touched == [S[sid] EXCEPT !.last_accessed = t,
                                            !.expires_at = t + (@ - S[sid].created_at)]
              IN [sessions |-> [S EXCEPT ![sid] = touched],
                  ret |-> RetSession(touched)]

MemGetSession(S, sid, t) ==
    IF sid = NoId \/ sid \notin DOMAIN S
    THEN [sessions |-> S, ret |-> RetNone]
    ELSE IF MemExpired(S[sid], t)
         THEN [sessions |-> MemDeleteSession(S, sid).sessions, ret |-> RetNone]
         ELSE LET touched == [S[sid] EXCEPT !.last_accessed = t]
              IN [sessions |-> [S EXCEPT ![sid] = touched],
                  ret |-> RetSession(touched)]

MemDeleteUserSessions(S, email) ==
    LET sessions_to_delete == {sid \in DOMAIN S : S[sid].user_email = email}
    IN [sessions |-> Remove(S, sessions_to_delete),
        ret |-> RetCount(Cardinality(sessions_to_delete))]

\* (mutation: an extend never moves the expiry back)
MemExtendSessionNeverShortening(S, sid, minutes, t) ==
    IF sid \notin DOMAIN S
    THEN [sessions |-> S, ret |-> RetBool(FALSE)]
    ELSE [sessions |-> [S EXCEPT ![sid].expires_at =
                                    IF @ > t + Timedelta(minutes) THEN @
                                    ELSE t + Timedelta(minutes),
                                 ![sid].last_accessed = t],
          ret |-> RetBool(TRUE)]

MemExtendSession(S, sid, minutes, t) ==
    IF sid \notin DOMAIN S
    THEN [sessions |-> S, ret |-> RetBool(FALSE)]
    ELSE [sessions |-> [S EXCEPT ![sid].expires_at = t + Timedelta(minutes),
                                 ![sid].last_accessed = t],
          ret |-> RetBool(TRUE)]

MemGetUserSessions(S, email, t) ==
    {[session_id |-> sid, created_at |-> S[sid].created_at,
      last_accessed |-> S[sid].last_accessed, expires_at |-> S[sid].expires_at] :
        sid \in {x \in DOMAIN S : S[x].user_email = email /\ t <= S[x].expires_at}}

\* SessionStore.get_session_count: the sweep, then the number of stored records
MemGetSessionCount(S, lc, t) ==
    LET swept == MemCleanupExpiredSessions(S, lc, t)
    IN [sessions |-> swept.sessions, last_cleanup |-> swept.last_cleanup,
        ret |-> RetCount(Cardinality(DOMAIN swept.sessions))]

\* ========================================================== persistent backend

\* (mutation: a row counts as expired from the instant of expires_at on)
IsExpiredFromExpiry(row, t) == t >= row.expires_at

IsExpired(row, t) == t > row.expires_at

\* (mutation: a row is swept from the instant of expires_at on)
DbCleanupFromExpiry(R, t) ==
    [sid \in DOMAIN R |->
        IF R[sid].expires_at <= t /\ R[sid].is_active
        THEN [R[sid] EXCEPT !.is_active = FALSE]
        ELSE R[sid]]

DbCleanupExpiredSessions(R, t) ==
    [sid \in DOMAIN R |->
        IF R[sid].expires_at < t /\ R[sid].is_active
        THEN [R[sid] EXCEPT !.is_active = FALSE]
        ELSE R[sid]]

\* (mutation: the lifetime is not added to the creation instant)
DbCreateSessionWithoutTtl(R, sid, email, minutes, t) ==
    LET inserted == Put(R, sid, [user_email |-> email, created_at |-> t,
                                 expires_at |-> t, last_accessed |-> t,
                                 is_active |-> TRUE])
    IN [rows |-> DbCleanupExpiredSessions(inserted, t), ret |-> RetId(sid)]

DbCreateSession(R, sid, email, minutes, t) ==
    LET inserted == Put(R, sid, [user_email |-> email, created_at |-> t,
                                 expires_at |-> t + Timedelta(minutes), last_accessed |-> t,
                                 is_active |-> TRUE])
    IN [rows |-> DbCleanupExpiredSessions(inserted, t), ret |-> RetId(sid)]

\* (mutation: the row is reported deleted but is_active is left set)
DbDeleteSessionKeepingActive(R, sid) ==
    IF sid = NoId
    THEN [rows |-> R, ret |-> RetBool(FALSE)]
    ELSE [rows |-> R, ret |-> RetBool(sid \in DOMAIN R)]

DbDeleteSession(R, sid) ==
    IF sid = NoId
    THEN [rows |-> R, ret |-> RetBool(FALSE)]
    ELSE IF sid \in DOMAIN R
         THEN [rows |-> [R EXCEPT ![sid].is_active = FALSE], ret |-> RetBool(TRUE)]
         ELSE [rows |-> R, ret |-> RetBool(FALSE)]

\* (mutation: an expired row found by a lookup is left flagged active)
DbGetSessionWithoutCleanup(R, sid, t) ==
    IF sid = NoId \/ ~(sid \in DOMAIN R /\ R[sid].is_active) \/ IsExpired(R[sid], t)
    THEN [rows |-> R, ret |-> RetNone]
    ELSE LET touched == [R[sid] EXCEPT !.last_accessed = t]
         IN [rows |-> [R EXCEPT ![sid] = touched],
             ret |-> RetSession([user_email |-> touched.user_email,
                                 created_at |-> touched.created_at,
                                 expires_at |-> touched.expires_at,
                                 last_accessed |-> touched.last_accessed])]

DbGetSession(R, sid, t) ==
    IF sid = NoId
    THEN [rows |-> R, ret |-> RetNone]
    ELSE IF ~(sid \in DOMAIN R /\ R[sid].is_active)
         THEN [rows |-> R, ret |-> RetNone]
         ELSE IF IsExpired(R[sid], t)
              THEN [rows |-> DbDeleteSession(R, sid).rows, ret |-> RetNone]
              ELSE LET touched == [R[sid] EXCEPT !.last_accessed = t]
                   IN [rows |-> [R EXCEPT ![sid] = touched],
                       ret |-> RetSession([user_email |-> touched.user_email,
                                           created_at |-> touched.created_at,
                                           expires_at |-> touched.expires_at,
                                           last_accessed |-> touched.last_accessed])]

\* (mutation: the extension is added to the previous expiry)
ModelExtendSessionAdditive(row, minutes, t) ==
    [row EXCEPT !.expires_at = @ + Timedelta(minutes), !.last_accessed = t]

ModelExtendSession(row, minutes, t) ==
    [row EXCEPT !.expires_at = t + Timedelta(minutes), !.last_accessed = t]

DbExtendSession(R, sid, minutes, t) ==
    IF sid = NoId
    THEN [rows |-> R, ret |-> RetBool(FALSE)]
    ELSE IF sid \in DOMAIN R /\ R[sid].is_active /\ ~IsExpired(R[sid], t)
         THEN [rows |-> [R EXCEPT ![sid] = ModelExtendSession(R[sid], minutes, t)],
               ret |-> RetBool(TRUE)]
         ELSE [rows |-> R, ret |-> RetBool(FALSE)]

\* (mutation: the owner filter is lost)
DbGetUserSessionsOfAnyone(R, email, t) ==
    {[session_id |-> sid, created_at |-> R[sid].created_at,
      last_accessed |-> R[sid].last_accessed, expires_at |-> R[sid].expires_at] :
        sid \in {x \in DOMAIN R : R[x].is_active /\ ~IsExpired(R[x], t)}}

\* (mutation: the is_active filter is lost, so revoked rows are listed)
DbGetUserSessionsRevokedToo(R, email, t) ==
    {[session_id |-> sid, created_at |-> R[sid].created_at,
      last_accessed |-> R[sid].last_accessed, expires_at |-> R[sid].expires_at] :
        sid \in {x \in DOMAIN R : R[x].user_email = email /\ ~IsExpired(R[x], t)}}

DbGetUserSessions(R, email, t) ==
    {[session_id |-> sid, created_at |-> R[sid].created_at,
      last_accessed |-> R[sid].last_accessed, expires_at |-> R[sid].expires_at] :
        sid \in {x \in DOMAIN R : R[x].user_email = email /\ R[x].is_active
                                  /\ ~IsExpired(R[x], t)}}

\* (mutation: the owner filter is lost)
DbDeleteAllSessionsOfAnyone(R, email) ==
    LET sessions == {sid \in DOMAIN R : R[sid].is_active}
    IN [rows |-> [sid \in DOMAIN R |->
                    IF sid \in sessions THEN [R[sid] EXCEPT !.is_active = FALSE]
                    ELSE R[sid]],
        ret |-> RetCount(Cardinality(sessions))]

\* (mutation: the is_active filter is lost, so retired rows are counted again)
DbDeleteAllUserSessionsCountingRetired(R, email) ==
    LET sessions == {sid \in DOMAIN R : R[sid].user_email = email}
    IN [rows |-> [sid \in DOMAIN R |->
                    IF sid \in sessions THEN [R[sid] EXCEPT !.is_active = FALSE]
                    ELSE R[sid]],
        ret |-> RetCount(Cardinality(sessions))]

DbDeleteAllUserSessions(R, email) ==
    LET sessions == {sid \in DOMAIN R : R[sid].user_email = email /\ R[sid].is_active}
    IN [rows |-> [sid \in DOMAIN R |->
                    IF sid \in sessions THEN [R[sid] EXCEPT !.is_active = FALSE]
                    ELSE R[sid]],
        ret |-> RetCount(Cardinality(sessions))]


\* ============================================================== liveness
\* The rule both backends apply when they list or look up a record.
MemLive(S, sid, t) == sid \in DOMAIN S /\ ~MemExpired(S[sid], t)
DbLive(R, sid, t) == sid \in DOMAIN R /\ R[sid].is_active /\ ~IsExpired(R[sid], t)

\* ======================================================== request guards

Unauthenticated ==
    [status |-> 401, detail |-> "No session found. Please login.",
     user |-> "", session_id |-> NoId]
InvalidOrExpired ==
    [status |-> 401, detail |-> "Invalid or expired session. Please login again.",
     user |-> "", session_id |-> NoId]
Authenticated(email, sid) ==
    [status |-> 200, detail |-> "", user |-> email, session_id |-> sid]

\* (mutation: a stored but dead session is told apart from an unknown id)
SessionExpired ==
    [status |-> 401, detail |-> "Session expired.", user |-> "", session_id |-> NoId]
GetCurrentUserSessionTellingCause(R, cookie, header, t) ==
    LET session_id == IF cookie # NoId THEN cookie ELSE header
        got == DbGetSession(R, session_id, t)
    IN IF session_id = NoId
       THEN [rows |-> R, ok |-> FALSE, resp |-> Unauthenticated]
       ELSE IF got.ret.kind = "none"
            THEN [rows |-> got.rows, ok |-> FALSE,
                  resp |-> IF session_id \in DOMAIN R THEN SessionExpired
                           ELSE InvalidOrExpired]
            ELSE [rows |-> got.rows, ok |-> TRUE,
                  resp |-> Authenticated(got.ret.data.user_email, session_id)]

\* (mutation: the header is tried when the cookie's id is not live)
GetCurrentUserSessionFallingBack(R, cookie, header, t) ==
    LET session_id == IF cookie # NoId /\ DbLive(R, cookie, t) THEN cookie
                      ELSE IF header # NoId THEN header ELSE cookie
        got == DbGetSession(R, session_id, t)
    IN IF session_id = NoId
       THEN [rows |-> R, ok |-> FALSE, resp |-> Unauthenticated]
       ELSE IF got.ret.kind = "none"
            THEN [rows |-> got.rows, ok |-> FALSE, resp |-> InvalidOrExpired]
            ELSE [rows |-> got.rows, ok |-> TRUE,
                  resp |-> Authenticated(got.ret.data.user_email, session_id)]

\* security.get_current_user_session: cookie or X-Session-ID header
GetCurrentUserSession(R, cookie, header, t) ==
    LET session_id == IF cookie # NoId THEN cookie ELSE header
        got == DbGetSession(R, session_id, t)
    IN IF session_id = NoId
       THEN [rows |-> R, ok |-> FALSE, resp |-> Unauthenticated]
       ELSE IF got.ret.kind = "none"
            THEN [rows |-> got.rows, ok |-> FALSE, resp |-> InvalidOrExpired]
            ELSE [rows |-> got.rows, ok |-> TRUE,
                  resp |-> Authenticated(got.ret.data.user_email, session_id)]

\* secure_auth.get_current_user_for_session_ops: cookie only
GetCurrentUserForSessionOps(R, cookie, t) ==
    LET got == DbGetSession(R, cookie, t)
    IN IF cookie = NoId
       THEN [rows |-> R, ok |-> FALSE, resp |-> Unauthenticated]
       ELSE IF got.ret.kind = "none"
            THEN [rows |-> got.rows, ok |-> FALSE, resp |-> InvalidOrExpired]
            ELSE [rows |-> got.rows, ok |-> TRUE,
                  resp |-> Authenticated(got.ret.data.user_email, cookie)]

\* ============================================= session-management handlers

SessionNotFound ==
    [status |-> 404, detail |-> "Session not found or doesn't belong to you",
     user |-> "", session_id |-> NoId]
UseLogoutInstead ==
    [status |-> 400, detail |-> "Cannot terminate current session. Use logout instead.",
     user |-> "", session_id |-> NoId]
SessionTerminated ==
    [status |-> 200, detail |-> "Session terminated successfully",
     user |-> "", session_id |-> NoId]
FailedToTerminate ==
    [status |-> 500, detail |-> "Failed to terminate session",
     user |-> "", session_id |-> NoId]

\* (mutation: the check against the acting session's own id is lost)
TerminateSessionWithoutSelfCheck(R, cookie, target, t) ==
    LET current == GetCurrentUserForSessionOps(R, cookie, t)
        user_sessions == DbGetUserSessions(current.rows, current.resp.user, t)
        deleted == DbDeleteSession(current.rows, target)
    IN IF ~current.ok
       THEN [rows |-> current.rows, resp |-> current.resp]
       ELSE IF target \notin {s.session_id : s \in user_sessions}
            THEN [rows |-> current.rows, resp |-> SessionNotFound]
            ELSE IF deleted.ret.b
                 THEN [rows |-> deleted.rows, resp |-> SessionTerminated]
                 ELSE [rows |-> deleted.rows, resp |-> FailedToTerminate]

\* secure_auth.terminate_session, with its guard
TerminateSession(R, cookie, target, t) ==
    LET current == GetCurrentUserForSessionOps(R, cookie, t)
        user_sessions == DbGetUserSessions(current.rows, current.resp.user, t)
        deleted == DbDeleteSession(current.rows, target)
    IN IF ~current.ok
       THEN [rows |-> current.rows, resp |-> current.resp]
       ELSE IF target \notin {s.session_id : s \in user_sessions}
            THEN [rows |-> current.rows, resp |-> SessionNotFound]
            ELSE IF target = current.resp.session_id
                 THEN [rows |-> current.rows, resp |-> UseLogoutInstead]
                 ELSE IF deleted.ret.b
                      THEN [rows |-> deleted.rows, resp |-> SessionTerminated]
                      ELSE [rows |-> deleted.rows, resp |-> FailedToTerminate]

\* ================================================= accounts and credentials

\* the users table: two registered accounts, each with its own password
PasswordOf(email) == IF email = "alice" THEN "alice-secret" ELSE "bob-secret"
Passwords == {PasswordOf(e) : e \in Emails}
LoginEmails == Emails \cup {"mallory"}

\* security.get_password_hash: the argon2 digest of a password
GetPasswordHash(password) == <<"$argon2id$", password>>

\* Stored values that are not a digest of the configured scheme: the empty
\* string, an argon2 prefix with nothing behind it, a digest of another scheme
\* and a password kept in the clear.
MalformedDigests ==
    {<<>>, <<"$argon2id$">>, <<"$2b$", "alice-secret">>, <<"alice-secret">>}
Digests == {GetPasswordHash(p) : p \in Passwords} \cup MalformedDigests

\* pwd_context.verify of CryptContext(schemes=["argon2"]): a hash whose scheme
\* is not identified raises UnknownHashError, an argon2 hash that does not
\* parse raises ValueError; otherwise the secret is checked against the digest
PwdContextVerify(secret, hash) ==
    IF Len(hash) = 0 \/ hash[1] # "$argon2id$"
    THEN RetRaised
    ELSE IF Len(hash) # 2
         THEN RetRaised
         ELSE RetBool(hash[2] = secret)

\* (mutation: any password verifies)
VerifyPasswordAlways(plain_password, hashed_password) == RetBool(TRUE)

\* security.verify_password: what pwd_context.verify returns, or raises
VerifyPassword(plain_password, hashed_password) ==
    PwdContextVerify(plain_password, hashed_password)

Users == {[email |-> e, password_hash |-> GetPasswordHash(PasswordOf(e))] : e \in Emails}

\* the users table when the registered accounts all hold the given digest
UsersHolding(digest) == {[email |-> e, password_hash |-> digest] : e \in Emails}

\* crud.get_user_by_email: the rows of that email (first() takes one, or None)
GetUserByEmail(U, email) == {u \in U : u.email = email}

\* ==================================================== login, logout, extend

InvalidEmailOrPassword ==
    [status |-> 401, detail |-> "Invalid email or password",
     user |-> "", session_id |-> NoId]
\* the session id travels in the Set-Cookie header of the response
LoginSuccessful(email, sid) ==
    [status |-> 200, detail |-> "Login successful", user |-> email, session_id |-> sid]
LoginInternalError ==
    [status |-> 500, detail |-> "Internal server error during login",
     user |-> "", session_id |-> NoId]
LogoutSuccessful ==
    [status |-> 200, detail |-> "Logout successful", user |-> "", session_id |-> NoId]
LoggedOutFromAllDevices ==
    [status |-> 200, detail |-> "Successfully logged out from all devices",
     user |-> "", session_id |-> NoId]
SessionExtended ==
    [status |-> 200, detail |-> "Session extended successfully",
     user |-> "", session_id |-> NoId]
CouldNotExtend ==
    [status |-> 400, detail |-> "Could not extend session",
     user |-> "", session_id |-> NoId]
MinutesOutOfRange ==
    [status |-> 400, detail |-> "Minutes must be between 5 and 480",
     user |-> "", session_id |-> NoId]
SessionExtendedBy ==
    [status |-> 200, detail |-> "Session extended by {minutes} minutes",
     user |-> "", session_id |-> NoId]
FailedToExtend ==
    [status |-> 400,
     detail |-> "Failed to extend session. Session may be expired or invalid.",
     user |-> "", session_id |-> NoId]
InternalServerError ==
    [status |-> 500, detail |-> "Internal server error",
     user |-> "", session_id |-> NoId]

\* DatabaseSessionStore.create_session with the outcome of db.commit(): a
\* commit that raises leaves the table as it was and the call without a result
\* (mutation: the failure of the commit is swallowed and the id returned)
DbCreateSessionCommitSwallowed(R, sid, email, minutes, commit_ok, t) ==
    IF commit_ok
    THEN DbCreateSession(R, sid, email, minutes, t)
    ELSE [rows |-> R, ret |-> RetId(sid)]

DbCreateSessionCommit(R, sid, email, minutes, commit_ok, t) ==
    IF commit_ok
    THEN DbCreateSession(R, sid, email, minutes, t)
    ELSE [rows |-> R, ret |-> RetRaised]

\* SecurityManager.create_session
SecurityManagerCreateSession(R, sid, email, commit_ok, t) ==
    DbCreateSessionCommit(R, sid, email, AccessTokenExpireMinutes, commit_ok, t)

\* secure_auth.secure_login; sid is the uuid4 create_session would draw
\* U is the users table the handler reads
SecureLogin(U, R, sid, email, password, commit_ok, t) ==
    LET found == GetUserByEmail(U, email)
        user == CHOOSE u \in found : TRUE
        verified == VerifyPassword(password, user.password_hash)
        created == SecurityManagerCreateSession(R, sid, user.email, commit_ok, t)
    IN IF found = {}
       THEN [rows |-> R, ret |-> NotCalled, resp |-> InvalidEmailOrPassword]
       ELSE IF verified = RetRaised
            THEN [rows |-> R, ret |-> NotCalled, resp |-> LoginInternalError]
            ELSE IF ~verified.b
                 THEN [rows |-> R, ret |-> NotCalled, resp |-> InvalidEmailOrPassword]
                 ELSE IF created.ret = RetRaised
                      THEN [rows |-> created.rows, ret |-> created.ret,
                            resp |-> LoginInternalError]
                      ELSE [rows |-> created.rows, ret |-> created.ret,
                            resp |-> LoginSuccessful(user.email, created.ret.sid)]

\* secure_auth.secure_logout, with its guard
SecureLogout(R, cookie, header, t) ==
    LET current == GetCurrentUserSession(R, cookie, header, t)
        deleted == DbDeleteSession(current.rows, current.resp.session_id)
    IN IF ~current.ok
       THEN [rows |-> current.rows, resp |-> current.resp]
       ELSE [rows |-> deleted.rows, resp |-> LogoutSuccessful]

\* secure_auth.logout_all_devices, with its guard
LogoutAllDevices(R, cookie, header, t) ==
    LET current == GetCurrentUserSession(R, cookie, header, t)
        deleted == DbDeleteAllUserSessions(current.rows, current.resp.user)
    IN IF ~current.ok
       THEN [rows |-> current.rows, resp |-> current.resp]
       ELSE [rows |-> deleted.rows, resp |-> LoggedOutFromAllDevices]

\* The body of an extend request: its "minutes" value, an integer or not.
IntMinutes(v) == [is_int |-> TRUE, v |-> v]
NotAnInteger == [is_int |-> FALSE, v |-> 0]
RequestedMinutes ==
    {IntMinutes(v) : v \in {MinExtendMinutes, MaxExtendMinutes, MaxExtendMinutes + 1}}
        \cup {NotAnInteger}

\* SecurityManager.extend_session as the class ends up defining it: the second
\* definition, of one parameter, replaces the first
SecurityManagerExtendSession(R, sid, t) ==
    DbExtendSession(R, sid, DefaultExtendMinutes, t)

\* SecurityManager.extend_session(session_id, minutes, db=db): the call does
\* not fit the one-parameter definition and raises TypeError
SecurityManagerExtendSessionMinutes(R, sid, minutes, t) ==
    [rows |-> R, ret |-> RetRaised]

\* secure_auth.extend_session, with its guard: the handler registered first
\* for POST /secure-auth/extend-session; it reads no body
ExtendSession(R, cookie, header, t) ==
    LET current == GetCurrentUserSession(R, cookie, header, t)
        extended == SecurityManagerExtendSession(current.rows,
                                                 current.resp.session_id, t)
    IN IF ~current.ok
       THEN [rows |-> current.rows, resp |-> current.resp]
       ELSE IF extended.ret.b
            THEN [rows |-> extended.rows, resp |-> SessionExtended]
            ELSE [rows |-> extended.rows, resp |-> CouldNotExtend]

\* secure_auth.extend_current_session, with its guard: the handler registered
\* second for the same method and path
ExtendCurrentSession(R, cookie, header, body, t) ==
    LET current == GetCurrentUserSession(R, cookie, header, t)
        success == SecurityManagerExtendSessionMinutes(current.rows,
                        current.resp.session_id, body.v, t)
    IN IF ~current.ok
       THEN [rows |-> current.rows, resp |-> current.resp]
       ELSE IF ~body.is_int \/ body.v < MinExtendMinutes \/ body.v > MaxExtendMinutes
            THEN [rows |-> current.rows, resp |-> MinutesOutOfRange]
            ELSE IF success.ret = RetRaised
                 THEN [rows |-> success.rows, resp |-> InternalServerError]
                 ELSE IF success.ret.b
                      THEN [rows |-> success.rows, resp |-> SessionExtendedBy]
                      ELSE [rows |-> success.rows, resp |-> FailedToExtend]

\* The handlers of POST /secure-auth/extend-session in registration order; the
\* router hands a request to the first route that matches it.
ExtendSessionRoutes == <<"extend_session", "extend_current_session">>
PostExtendSession(R, cookie, header, body, t) ==
    IF Head(ExtendSessionRoutes) = "extend_session"
    THEN ExtendSession(R, cookie, header, t)
    ELSE ExtendCurrentSession(R, cookie, header, body, t)

\* ------------------------------------------------------------ bearer tokens

\* SECRET_KEY and a key the server does not hold
SecretKey == "SECRET_KEY"
OtherKey == "another-key"
\* create_access_token called without expires_delta
NoDelta == 0
\* a payload without the "sub" entry
NoSub == ""

\* jose.jwt.encode: the claims signed with the key
JwtEncode(claims, key) == [claims |-> claims, signed_with |-> key]

\* jose.jwt.decode: JWTError for a signature made with another key and for an
\* exp that lies before the current instant; otherwise the claims
JwtDecode(token, key, t) ==
    IF token.signed_with # key \/ token.claims.exp < t
    THEN RetRaised
    ELSE RetSession(token.claims)

\* SecurityManager.create_access_token(data, expires_delta)
CreateAccessToken(data, expires_delta, t) ==
    LET expire == IF expires_delta # NoDelta
                  THEN t + expires_delta
                  ELSE t + Timedelta(AccessTokenExpireMinutes)
    IN JwtEncode([sub |-> data.sub, exp |-> expire], SecretKey)

\* (mutation: a token is honoured only while its principal holds a live session)
VerifyTokenNeedingSession(token, t) ==
    LET payload == JwtDecode(token, SecretKey, t)
    IN IF payload = RetRaised
       THEN RetNone
       ELSE IF payload.data.sub = NoSub
            THEN RetNone
            ELSE IF \E sid \in DOMAIN db_rows :
                       /\ db_rows[sid].user_email = payload.data.sub
                       /\ DbLive(db_rows, sid, t)
                 THEN RetSession([email |-> payload.data.sub, exp |-> payload.data.exp])
                 ELSE RetNone

\* SecurityManager.verify_token(token)
VerifyToken(token, t) ==
    LET payload == JwtDecode(token, SecretKey, t)
    IN IF payload = RetRaised
       THEN RetNone
       ELSE IF payload.data.sub = NoSub
            THEN RetNone
            ELSE RetSession([email |-> payload.data.sub, exp |-> payload.data.exp])

CouldNotValidate ==
    [status |-> 401, detail |-> "Could not validate credentials",
     user |-> "", session_id |-> NoId]

\* get_current_user: the guard of the bearer-token routes
GetCurrentUser(token, t) ==
    LET payload == VerifyToken(token, t)
    IN IF payload = RetNone
       THEN CouldNotValidate
       ELSE Authenticated(payload.data.email, NoId)

\* ================================================================ the steps

TheCall(op, sid, email, minutes, cookie, header) ==
    [op |-> op, sid |-> sid, email |-> email, minutes |-> minutes,
     cookie |-> cookie, header |-> header]

\* The threads that call the store at the same time, and a thread between two
\* calls: the operation it ran last, the id it was about and what it returned.
MaxThreads == 2
Threads == 1..MaxThreads
Idle(op, sid, ret) ==
    [pc |-> "idle", op |-> op, sid |-> sid, email |-> "", minutes |-> 0,
     todo |-> <<>>, seen |-> 0, n |-> 0, at |-> 0, row |-> <<>>, ret |-> ret]

\* No history yet.  born: id -> the principal, instant and ttl of its create
\* (ttl 0: none given); revoked, extended: ids a revoke / revoke-all, or a
\* successful extend, was applied to; logged_out, logged_out_all: ids a
\* successful logout / logout-all was made with; failed: ids generated by a
\* create whose write failed.
NoLife(on) ==
    [on |-> on, born |-> <<>>, revoked |-> {}, extended |-> {},
     logged_out |-> {}, logged_out_all |-> {}, failed |-> {}]

LifeAfter(l, c, mr, dr, resp, t) ==
    LET acting == IF c.cookie # NoId THEN c.cookie ELSE c.header IN
    CASE c.op \in {"create", "createDefault"} ->
            [l EXCEPT !.born = Put(l.born, c.sid,
                [principal |-> c.email, at |-> t, ttl |-> c.minutes])]
      [] c.op = "revoke" -> [l EXCEPT !.revoked = @ \cup ({c.sid} \cap DOMAIN l.born)]
      [] c.op = "revokeAll" ->
            [l EXCEPT !.revoked = @ \cup
                {sid \in DOMAIN l.born : l.born[sid].principal = c.email}]
      [] c.op = "extend" /\ (mr = RetBool(TRUE) \/ dr = RetBool(TRUE)) ->
            [l EXCEPT !.extended = @ \cup {c.sid}]
      [] c.op = "logout" /\ resp.status = 200 ->
            [l EXCEPT !.logged_out = @ \cup {acting}]
      [] c.op = "logoutAll" /\ resp.status = 200 ->
            [l EXCEPT !.logged_out_all = @ \cup {acting}]
      [] c.op = "login" /\ dr = RetRaised -> [l EXCEPT !.failed = @ \cup {c.sid}]
      [] OTHER -> l

InitStores ==
    /\ now = 0
    /\ next_id = 1
    /\ mem_sessions = <<>>
    /\ last_cleanup = 0
    /\ db_rows = <<>>
    /\ call = TheCall("init", NoId, "", 0, NoId, NoId)
    /\ mem_ret = NotCalled
    /\ db_ret = NotCalled
    /\ http = NoResponse
    /\ mem_revoked = {}
    /\ db_revoked = {}
    /\ tokens = {}
    /\ threads = [i \in Threads |-> Idle("none", NoId, NotCalled)]

Init == InitStores /\ life = NoLife(FALSE)

\* The bookkeeping every step ends with: the new state, what was returned, and
\* the ids whose revocation has reported success.
Commit(c, S, lc, R, mr, dr, resp, nid, t) ==
    /\ call' = c
    /\ mem_sessions' = S
    /\ last_cleanup' = lc
    /\ db_rows' = R
    /\ mem_ret' = mr
    /\ db_ret' = dr
    /\ http' = resp
    /\ next_id' = nid
    /\ now' = t
    /\ mem_revoked' = IF c.op = "revoke" /\ mr = RetBool(TRUE)
                      THEN mem_revoked \cup {c.sid} ELSE mem_revoked
    /\ db_revoked' = IF c.op = "revoke" /\ dr = RetBool(TRUE)
                     THEN db_revoked \cup {c.sid} ELSE db_revoked
    /\ life' = IF life.on THEN LifeAfter(life, c, mr, dr, resp, now) ELSE life
    /\ tokens' = IF c.op = "issueToken" THEN tokens \cup {c.token} ELSE tokens
    /\ threads' = threads

Tick ==
    /\ now + TickSeconds <= EndOfTime
    /\ Commit(TheCall("tick", NoId, "", 0, NoId, NoId), mem_sessions, last_cleanup,
              db_rows, NotCalled, NotCalled, NoResponse, next_id, now + TickSeconds)

Create(email, minutes) ==
    /\ next_id <= MaxSessions
    /\ LET m == MemCreateSession(mem_sessions, last_cleanup, next_id, email, minutes, now)
           d == DbCreateSession(db_rows, next_id, email, minutes, now)
       IN Commit(TheCall("create", next_id, email, minutes, NoId, NoId),
                 m.sessions, m.last_cleanup, d.rows, m.ret, d.ret, NoResponse,
                 next_id + 1, now)

Get(sid) ==
    LET m == MemGetSession(mem_sessions, sid, now)
        d == DbGetSession(db_rows, sid, now)
    IN Commit(TheCall("get", sid, "", 0, NoId, NoId), m.sessions, last_cleanup,
              d.rows, m.ret, d.ret, NoResponse, next_id, now)

Extend(sid, minutes) ==
    LET m == MemExtendSession(mem_sessions, sid, minutes, now)
        d == DbExtendSession(db_rows, sid, minutes, now)
    IN Commit(TheCall("extend", sid, "", minutes, NoId, NoId), m.sessions,
              last_cleanup, d.rows, m.ret, d.ret, NoResponse, next_id, now)

Revoke(sid) ==
    LET m == MemDeleteSession(mem_sessions, sid)
        d == DbDeleteSession(db_rows, sid)
    IN Commit(TheCall("revoke", sid, "", 0, NoId, NoId), m.sessions, last_cleanup,
              d.rows, m.ret, d.ret, NoResponse, next_id, now)

ListByPrincipal(email) ==
    Commit(TheCall("list", NoId, email, 0, NoId, NoId), mem_sessions, last_cleanup,
           db_rows, RetList(MemGetUserSessions(mem_sessions, email, now)),
           RetList(DbGetUserSessions(db_rows, email, now)), NoResponse, next_id, now)

RevokeAll(email) ==
    LET m == MemDeleteUserSessions(mem_sessions, email)
        d == DbDeleteAllUserSessions(db_rows, email)
    IN Commit(TheCall("revokeAll", NoId, email, 0, NoId, NoId), m.sessions,
              last_cleanup, d.rows, m.ret, d.ret, NoResponse, next_id, now)

\* A request through the Session Authenticator (the persistent store only).
Authenticate(cookie, header) ==
    LET g == GetCurrentUserSession(db_rows, cookie, header, now)
    IN Commit(TheCall("authenticate", NoId, "", 0, cookie, header), mem_sessions,
              last_cleanup, g.rows, NotCalled, NotCalled, g.resp, next_id, now)

\* DELETE /secure-auth/sessions/{session_id} (the persistent store only).  The
\* request may carry an X-Session-ID header; the handler's guard declares the
\* cookie only.
Terminate(cookie, header, target) ==
    LET r == TerminateSession(db_rows, cookie, target, now)
    IN Commit(TheCall("terminate", target, "", 0, cookie, header), mem_sessions,
              last_cleanup, r.rows, NotCalled, NotCalled, r.resp, next_id, now)

StoreStep ==
    \/ Tick
    \/ \E email \in Emails, minutes \in Minutes : Create(email, minutes)
    \/ \E sid \in PresentedIds : Get(sid)
    \/ \E sid \in PresentedIds, minutes \in Minutes : Extend(sid, minutes)
    \/ \E sid \in PresentedIds : Revoke(sid)
    \/ \E email \in Emails : ListByPrincipal(email)
    \/ \E email \in Emails : RevokeAll(email)

RequestStep ==
    \/ \E cookie \in PresentedIds, header \in PresentedIds : Authenticate(cookie, header)
    \/ \E cookie \in PresentedIds, header \in PresentedIds, target \in SessionIds :
          Terminate(cookie, header, target)

\* Both backends driven by the same store calls, so that they stay in step.
Next == StoreStep
Spec == Init /\ [][Next]_vars

\* The request handlers over the persistent store, with the store calls that
\* set their scene (login creates, logout revokes, time passes).
NextRequests ==
    \/ Tick
    \/ \E email \in Emails, minutes \in Minutes : Create(email, minutes)
    \/ \E sid \in SessionIds : Revoke(sid)
    \/ RequestStep
SpecRequests == Init /\ [][NextRequests]_vars


\* ------------------------------------------------- the steps of a login session

\* a request with its credentials or body
TheRequest(op, sid, email, password, body, commit_ok, cookie, header) ==
    [op |-> op, sid |-> sid, email |-> email, minutes |-> 0, cookie |-> cookie,
     header |-> header, password |-> password, body |-> body, commit_ok |-> commit_ok]

\* The clock of a login session advances one session lifetime at a time.
SessionSeconds == Timedelta(AccessTokenExpireMinutes)
EndOfSessions == (MaxTicks - 1) * SessionSeconds
TickSession ==
    /\ now + SessionSeconds <= EndOfSessions
    /\ Commit(TheCall("tick", NoId, "", 0, NoId, NoId), mem_sessions, last_cleanup,
              db_rows, NotCalled, NotCalled, NoResponse, next_id, now + SessionSeconds)

\* POST /secure-auth/login; commit_ok: whether the write of the row succeeds
Login(email, password, commit_ok) ==
    LET r == SecureLogin(Users, db_rows, next_id, email, password, commit_ok, now)
        drawn == r.ret # NotCalled
    IN /\ drawn => next_id <= MaxSessions
       /\ Commit(TheRequest("login", IF drawn THEN next_id ELSE NoId, email, password,
                            NotAnInteger, commit_ok, NoId, NoId),
                 mem_sessions, last_cleanup, r.rows, NotCalled, r.ret, r.resp,
                 IF drawn THEN next_id + 1 ELSE next_id, now)

\* POST /secure-auth/logout
Logout(cookie, header) ==
    LET r == SecureLogout(db_rows, cookie, header, now)
    IN Commit(TheRequest("logout", NoId, "", "", NotAnInteger, TRUE, cookie, header),
              mem_sessions, last_cleanup, r.rows, NotCalled, NotCalled, r.resp,
              next_id, now)

\* POST /secure-auth/logout-all
LogoutAll(cookie, header) ==
    LET r == LogoutAllDevices(db_rows, cookie, header, now)
    IN Commit(TheRequest("logoutAll", NoId, "", "", NotAnInteger, TRUE, cookie, header),
              mem_sessions, last_cleanup, r.rows, NotCalled, NotCalled, r.resp,
              next_id, now)

\* POST /secure-auth/extend-session
ExtendRequest(cookie, header, body) ==
    LET r == PostExtendSession(db_rows, cookie, header, body, now)
    IN Commit(TheRequest("extendRequest", NoId, "", "", body, TRUE, cookie, header),
              mem_sessions, last_cleanup, r.rows, NotCalled, NotCalled, r.resp,
              next_id, now)

\* A client sends its session id in the cookie or in the X-Session-ID header.
Carriers == {<<id, NoId>> : id \in PresentedIds} \cup {<<NoId, id>> : id \in SessionIds}

\* A session from login to logout, over the persistent store.
InitSessions == InitStores /\ life = NoLife(TRUE)
NextSessions ==
    \/ TickSession
    \/ \E email \in LoginEmails, password \in Passwords, commit_ok \in BOOLEAN :
          Login(email, password, commit_ok)
    \/ \E c \in Carriers : Authenticate(c[1], c[2])
    \/ \E c \in Carriers, body \in RequestedMinutes : ExtendRequest(c[1], c[2], body)
    \/ \E c \in Carriers : Logout(c[1], c[2])
    \/ \E c \in Carriers : LogoutAll(c[1], c[2])
SpecSessions == InitSessions /\ [][NextSessions]_vars

\* --------------------------------------------- the steps of a record's lifetime

\* create_session(user_email): no lifetime given, each backend takes its default
CreateDefault(email) ==
    /\ next_id <= MaxSessions
    /\ LET m == MemCreateSession(mem_sessions, last_cleanup, next_id, email,
                                 MemDefaultExpiresInMinutes, now)
           d == DbCreateSession(db_rows, next_id, email, DbDefaultExpiresMinutes, now)
       IN Commit(TheCall("createDefault", next_id, email, NoMinutes, NoId, NoId),
                 m.sessions, m.last_cleanup, d.rows, m.ret, d.ret, NoResponse,
                 next_id + 1, now)

\* The store calls made on created records, with what was done to each id kept.
InitLifetime == InitStores /\ life = NoLife(TRUE)
NextLifetime ==
    \/ Tick
    \/ \E email \in Emails, minutes \in Minutes : Create(email, minutes)
    \/ \E email \in Emails : CreateDefault(email)
    \/ \E sid \in SessionIds : Get(sid)
    \/ \E sid \in SessionIds, minutes \in Minutes : Extend(sid, minutes)
    \/ \E sid \in SessionIds : Revoke(sid)
    \/ \E email \in Emails : RevokeAll(email)
SpecLifetime == InitLifetime /\ [][NextLifetime]_vars

\* ------------------------------------------------ the steps of the timed sweep

\* The clock read several times within one cleanup interval.
FineSeconds == CleanupInterval \div 3
TickFine ==
    /\ now + FineSeconds <= EndOfTime
    /\ Commit(TheCall("tick", NoId, "", 0, NoId, NoId), mem_sessions, last_cleanup,
              db_rows, NotCalled, NotCalled, NoResponse, next_id, now + FineSeconds)

\* SessionStore.get_session_count (the volatile store only)
SessionCount ==
    LET m == MemGetSessionCount(mem_sessions, last_cleanup, now)
    IN Commit(TheCall("count", NoId, "", 0, NoId, NoId), m.sessions, m.last_cleanup,
              db_rows, m.ret, NotCalled, NoResponse, next_id, now)

\* The calls that reach the volatile sweep, on a clock fine enough for a
\* record to expire between two sweeps.
NextSweep ==
    \/ TickFine
    \/ \E email \in Emails, minutes \in Minutes : Create(email, minutes)
    \/ SessionCount
    \/ \E sid \in SessionIds : Revoke(sid)
SpecSweep == Init /\ [][NextSweep]_vars

\* ------------------------------------------- the steps of credential checking

\* a call that takes a password and a stored digest
TheCredentials(op, sid, email, password, digest, commit_ok) ==
    [op |-> op, sid |-> sid, email |-> email, minutes |-> 0, cookie |-> NoId,
     header |-> NoId, password |-> password, digest |-> digest,
     commit_ok |-> commit_ok]

\* security_manager.verify_password(password, digest); db_ret holds its result
Verify(password, digest) ==
    Commit(TheCredentials("verify", NoId, "", password, digest, TRUE),
           mem_sessions, last_cleanup, db_rows, NotCalled,
           VerifyPassword(password, digest), NoResponse, next_id, now)

\* POST /secure-auth/login against accounts whose stored digest is the given one
LoginStored(email, password, digest) ==
    LET r == SecureLogin(UsersHolding(digest), db_rows, next_id, email, password,
                         TRUE, now)
        drawn == r.ret # NotCalled
    IN /\ drawn => next_id <= MaxSessions
       /\ Commit(TheCredentials("loginStored", IF drawn THEN next_id ELSE NoId, email,
                                password, digest, TRUE),
                 mem_sessions, last_cleanup, r.rows, NotCalled, NotCalled, r.resp,
                 IF drawn THEN next_id + 1 ELSE next_id, now)

\* Passwords checked against stored digests of every kind.
NextCredentials ==
    \/ TickSession
    \/ \E password \in Passwords, digest \in Digests : Verify(password, digest)
    \/ \E email \in LoginEmails, password \in Passwords, digest \in Digests :
          LoginStored(email, password, digest)
SpecCredentials == Init /\ [][NextCredentials]_vars

\* --------------------------------------------------- the steps of bearer tokens

MaxTokens == 2

\* a call that takes or makes a bearer token
TheToken(op, email, token) ==
    [op |-> op, sid |-> NoId, email |-> email, minutes |-> 0, cookie |-> NoId,
     header |-> NoId, token |-> token]

\* POST /auth/login past the password check: the token of a 30 minute lifetime
IssueToken(email) ==
    LET token == CreateAccessToken([sub |-> email],
                                   Timedelta(AccessTokenExpireMinutes), now)
    IN /\ Cardinality(tokens \cup {token}) <= MaxTokens
       /\ Commit(TheToken("issueToken", email, token), mem_sessions, last_cleanup,
                 db_rows, NotCalled, NotCalled, NoResponse, next_id, now)

\* tokens nobody issued: signed with another key
ForgedTokens ==
    {JwtEncode([sub |-> e, exp |-> EndOfSessions + SessionSeconds], OtherKey) : e \in Emails}

\* a request to a route guarded by get_current_user; db_ret holds what
\* verify_token returned
Bearer(token) ==
    Commit(TheToken("bearer", "", token), mem_sessions, last_cleanup, db_rows,
           NotCalled, VerifyToken(token, now), GetCurrentUser(token, now), next_id, now)

\* Bearer tokens next to the session store.
NextTokens ==
    \/ TickSession
    \/ \E email \in Emails : IssueToken(email)
    \/ \E token \in tokens \cup ForgedTokens : Bearer(token)
    \/ \E email \in Emails, minutes \in Minutes : Create(email, minutes)
    \/ \E sid \in SessionIds, minutes \in Minutes : Extend(sid, minutes)
    \/ \E sid \in SessionIds : Revoke(sid)
    \/ \E email \in Emails : RevokeAll(email)
SpecTokens == Init /\ [][NextTokens]_vars

\* ------------------------------ the volatile store, one dict access at a time
\* Each step is one statement of session_store.py run by thread i; between two
\* steps of a thread the other thread may run.  KeyError and RuntimeError leave
\* the operation: it ends with RetRaised.

\* the ids of a set in the order the dict yields them (insertion order)
InOrder(ids) == SelectSeq([k \in 1..MaxSessions |-> k], LAMBDA k : k \in ids)

ThreadStep(i, t, S, lc, nid) ==
    /\ threads' = [threads EXCEPT ![i] = t]
    /\ mem_sessions' = S
    /\ last_cleanup' = lc
    /\ next_id' = nid
    /\ UNCHANGED <<now, db_rows, call, mem_ret, db_ret, http, mem_revoked,
                   db_revoked, life, tokens>>

\* the operation of thread t returns (or raises)
Finish(t, ret) == Idle(t.op, t.sid, ret)

\* create_session lines 23-31: the new record is stored; the sweep follows
MemCreateStore(i, email, minutes) ==
    /\ threads[i].pc = "idle"
    /\ next_id <= MaxSessions
    /\ ThreadStep(i, [Idle("create", next_id, NotCalled) EXCEPT !.pc = "cleanup_gate"],
                  Put(mem_sessions, next_id,
                      [user_email |-> email, created_at |-> now,
                       expires_at |-> now + Timedelta(minutes), last_accessed |-> now]),
                  last_cleanup, next_id + 1)

\* _cleanup_expired_sessions lines 89-95: the gate; past it the comprehension
\* starts to iterate over the dict, whose size the iterator remembers
MemCleanupGate(i) ==
    LET t == threads[i] IN
    /\ t.pc = "cleanup_gate"
    /\ IF now - last_cleanup < CleanupInterval
       THEN ThreadStep(i, Finish(t, RetId(t.sid)), mem_sessions, last_cleanup, next_id)
       ELSE ThreadStep(i, [t EXCEPT !.pc = "cleanup_list", !.at = now,
                                    !.seen = Cardinality(DOMAIN mem_sessions)],
                       mem_sessions, last_cleanup, next_id)

\* lines 96-99: the iteration ends; RuntimeError when the dict changed size
MemCleanupList(i) ==
    LET t == threads[i]
        expired_sessions ==
            InOrder({sid \in DOMAIN mem_sessions : MemExpired(mem_sessions[sid], t.at)})
    IN /\ t.pc = "cleanup_list"
       /\ IF Cardinality(DOMAIN mem_sessions) # t.seen
          THEN ThreadStep(i, Finish(t, RetRaised), mem_sessions, last_cleanup, next_id)
          ELSE ThreadStep(i, [t EXCEPT !.todo = expired_sessions,
                                       !.pc = IF expired_sessions = <<>>
                                              THEN "cleanup_stamp" ELSE "cleanup_read"],
                          mem_sessions, last_cleanup, next_id)

\* line 102: self._sessions[session_id]; KeyError when the key is gone
MemCleanupRead(i) ==
    LET t == threads[i] IN
    /\ t.pc = "cleanup_read"
    /\ IF Head(t.todo) \notin DOMAIN mem_sessions
       THEN ThreadStep(i, Finish(t, RetRaised), mem_sessions, last_cleanup, next_id)
       ELSE ThreadStep(i, [t EXCEPT !.pc = "cleanup_del"], mem_sessions, last_cleanup,
                       next_id)

\* line 103: del self._sessions[session_id]; KeyError when the key is gone
MemCleanupDel(i) ==
    LET t == threads[i] IN
    /\ t.pc = "cleanup_del"
    /\ IF Head(t.todo) \notin DOMAIN mem_sessions
       THEN ThreadStep(i, Finish(t, RetRaised), mem_sessions, last_cleanup, next_id)
       ELSE ThreadStep(i, [t EXCEPT !.todo = Tail(t.todo),
                                    !.pc = IF Tail(t.todo) = <<>>
                                           THEN "cleanup_stamp" ELSE "cleanup_read"],
                       Remove(mem_sessions, {Head(t.todo)}), last_cleanup, next_id)

\* line 109, and create_session line 35: the id is returned
MemCleanupStamp(i) ==
    LET t == threads[i] IN
    /\ t.pc = "cleanup_stamp"
    /\ ThreadStep(i, Finish(t, RetId(t.sid)), mem_sessions, t.at, next_id)

\* get_session lines 39-40: the membership test
MemGetTest(i, sid) ==
    /\ threads[i].pc = "idle"
    /\ IF sid = NoId \/ sid \notin DOMAIN mem_sessions
       THEN ThreadStep(i, Idle("get", sid, RetNone), mem_sessions, last_cleanup, next_id)
       ELSE ThreadStep(i, [Idle("get", sid, NotCalled) EXCEPT !.pc = "get_read"],
                       mem_sessions, last_cleanup, next_id)

\* lines 42-52: self._sessions[session_id] (KeyError when the key is gone), the
\* expiry test, and for a live record the touch and the return
MemGetRead(i) ==
    LET t == threads[i]
        touched == [mem_sessions[t.sid] EXCEPT !.last_accessed = now]
    IN /\ t.pc = "get_read"
       /\ IF t.sid \notin DOMAIN mem_sessions
          THEN ThreadStep(i, Finish(t, RetRaised), mem_sessions, last_cleanup, next_id)
          ELSE IF MemExpired(mem_sessions[t.sid], now)
               THEN ThreadStep(i, [t EXCEPT !.pc = "delete_test"], mem_sessions,
                               last_cleanup, next_id)
               ELSE ThreadStep(i, Finish(t, RetSession(touched)),
                               [mem_sessions EXCEPT ![t.sid] = touched], last_cleanup,
                               next_id)

\* what the operation returns when delete_session returned deleted
AfterDelete(t, deleted) ==
    IF t.op = "get" THEN Finish(t, RetNone) ELSE Finish(t, RetBool(deleted))

\* delete_session line 56, called by revoke
MemRevokeTest(i, sid) ==
    /\ threads[i].pc = "idle"
    /\ IF sid \in DOMAIN mem_sessions
       THEN ThreadStep(i, [Idle("revoke", sid, NotCalled) EXCEPT !.pc = "delete_read"],
                       mem_sessions, last_cleanup, next_id)
       ELSE ThreadStep(i, Idle("revoke", sid, RetBool(FALSE)), mem_sessions,
                       last_cleanup, next_id)

\* delete_session line 56, called by get_session for an expired record
MemDeleteTest(i) ==
    LET t == threads[i] IN
    /\ t.pc = "delete_test"
    /\ IF t.sid \in DOMAIN mem_sessions
       THEN ThreadStep(i, [t EXCEPT !.pc = "delete_read"], mem_sessions, last_cleanup,
                       next_id)
       ELSE ThreadStep(i, AfterDelete(t, FALSE), mem_sessions, last_cleanup, next_id)

\* line 57: self._sessions[session_id].get(...); KeyError when the key is gone
MemDeleteRead(i) ==
    LET t == threads[i] IN
    /\ t.pc = "delete_read"
    /\ IF t.sid \notin DOMAIN mem_sessions
       THEN ThreadStep(i, Finish(t, RetRaised), mem_sessions, last_cleanup, next_id)
       ELSE ThreadStep(i, [t EXCEPT !.pc = "delete_del"], mem_sessions, last_cleanup,
                       next_id)

\* line 58: del self._sessions[session_id]; KeyError when the key is gone
MemDeleteDel(i) ==
    LET t == threads[i] IN
    /\ t.pc = "delete_del"
    /\ IF t.sid \notin DOMAIN mem_sessions
       THEN ThreadStep(i, Finish(t, RetRaised), mem_sessions, last_cleanup, next_id)
       ELSE ThreadStep(i, AfterDelete(t, TRUE), Remove(mem_sessions, {t.sid}),
                       last_cleanup, next_id)

\* delete_user_sessions lines 65-66: the comprehension starts to iterate
MemDeleteUserIterate(i, email) ==
    /\ threads[i].pc = "idle"
    /\ ThreadStep(i, [Idle("revokeAll", NoId, NotCalled) EXCEPT
                          !.pc = "user_list", !.email = email,
                          !.seen = Cardinality(DOMAIN mem_sessions)],
                  mem_sessions, last_cleanup, next_id)

\* lines 66-68: the iteration ends; RuntimeError when the dict changed size
MemDeleteUserList(i) ==
    LET t == threads[i]
        sessions_to_delete ==
            InOrder({sid \in DOMAIN mem_sessions : mem_sessions[sid].user_email = t.email})
    IN /\ t.pc = "user_list"
       /\ IF Cardinality(DOMAIN mem_sessions) # t.seen
          THEN ThreadStep(i, Finish(t, RetRaised), mem_sessions, last_cleanup, next_id)
          ELSE IF sessions_to_delete = <<>>
               THEN ThreadStep(i, Finish(t, RetCount(0)), mem_sessions, last_cleanup,
                               next_id)
               ELSE ThreadStep(i, [t EXCEPT !.pc = "user_del", !.todo = sessions_to_delete,
                                            !.n = Len(sessions_to_delete)],
                               mem_sessions, last_cleanup, next_id)

\* line 71: del self._sessions[session_id]; KeyError when the key is gone; after
\* the last one line 74 returns the length of the list
MemDeleteUserDel(i) ==
    LET t == threads[i] IN
    /\ t.pc = "user_del"
    /\ IF Head(t.todo) \notin DOMAIN mem_sessions
       THEN ThreadStep(i, Finish(t, RetRaised), mem_sessions, last_cleanup, next_id)
       ELSE ThreadStep(i, IF Tail(t.todo) = <<>> THEN Finish(t, RetCount(t.n))
                                                ELSE [t EXCEPT !.todo = Tail(t.todo)],
                       Remove(mem_sessions, {Head(t.todo)}), last_cleanup, next_id)

\* extend_session lines 78-79: the membership test
MemExtendTest(i, sid, minutes) ==
    /\ threads[i].pc = "idle"
    /\ IF sid \notin DOMAIN mem_sessions
       THEN ThreadStep(i, Idle("extend", sid, RetBool(FALSE)), mem_sessions,
                       last_cleanup, next_id)
       ELSE ThreadStep(i, [Idle("extend", sid, NotCalled) EXCEPT
                               !.pc = "extend_read", !.minutes = minutes],
                       mem_sessions, last_cleanup, next_id)

\* lines 81-85: self._sessions[session_id] (KeyError when the key is gone) and
\* the two writes into the record
MemExtendRead(i) ==
    LET t == threads[i] IN
    /\ t.pc = "extend_read"
    /\ IF t.sid \notin DOMAIN mem_sessions
       THEN ThreadStep(i, Finish(t, RetRaised), mem_sessions, last_cleanup, next_id)
       ELSE ThreadStep(i, Finish(t, RetBool(TRUE)),
                       MemExtendSession(mem_sessions, t.sid, t.minutes, now).sessions,
                       last_cleanup, next_id)

\* the clock while the threads run: far enough for a record to expire and for
\* the gate of the sweep to open
EndOfThreads == 2 * CleanupInterval
TickThreads ==
    /\ now + TickSeconds <= EndOfThreads
    /\ Tick

\* The volatile store called from several threads.
NextThreads ==
    \/ TickThreads
    \/ \E i \in Threads :
          \/ \E email \in Emails, minutes \in Minutes : MemCreateStore(i, email, minutes)
          \/ MemCleanupGate(i)
          \/ MemCleanupList(i)
          \/ MemCleanupRead(i)
          \/ MemCleanupDel(i)
          \/ MemCleanupStamp(i)
          \/ \E sid \in SessionIds : MemGetTest(i, sid)
          \/ MemGetRead(i)
          \/ \E sid \in SessionIds : MemRevokeTest(i, sid)
          \/ MemDeleteTest(i)
          \/ MemDeleteRead(i)
          \/ MemDeleteDel(i)
          \/ \E email \in Emails : MemDeleteUserIterate(i, email)
          \/ MemDeleteUserList(i)
          \/ MemDeleteUserDel(i)
          \/ \E sid \in SessionIds, minutes \in Minutes : MemExtendTest(i, sid, minutes)
          \/ MemExtendRead(i)
SpecThreads == Init /\ [][NextThreads]_vars

\* ------------------------- the persistent store, one query or commit at a time
\* Each thread has its own database session: a query loads the row into the
\* thread (row), the clock is read against the loaded row, and a commit writes
\* the columns the thread has assigned.  Between two steps of a thread the
\* other thread and the clock may move.

DbStep(i, t, R, nid) ==
    /\ threads' = [threads EXCEPT ![i] = t]
    /\ db_rows' = R
    /\ next_id' = nid
    /\ UNCHANGED <<now, mem_sessions, last_cleanup, call, mem_ret, db_ret, http,
                   mem_revoked, db_revoked, life, tokens>>

\* the SELECT of get_session and extend_session: the active row of that id
ActiveRow(R, sid) == sid \in DOMAIN R /\ R[sid].is_active

\* create_session lines 24-54: the row is inserted and committed; the sweep follows
DbCreateInsert(i, email, minutes) ==
    /\ threads[i].pc = "idle"
    /\ next_id <= MaxSessions
    /\ DbStep(i, [Idle("create", next_id, NotCalled) EXCEPT !.pc = "sweep_query"],
              Put(db_rows, next_id,
                  [user_email |-> email, created_at |-> now,
                   expires_at |-> now + Timedelta(minutes), last_accessed |-> now,
                   is_active |-> TRUE]),
              next_id + 1)

\* _cleanup_expired_sessions lines 280-287: the rows the query selects
DbSweepQuery(i) ==
    LET t == threads[i]
        expired_sessions ==
            InOrder({sid \in DOMAIN db_rows :
                        db_rows[sid].expires_at < now /\ db_rows[sid].is_active})
    IN /\ t.pc = "sweep_query"
       /\ IF expired_sessions = <<>>
          THEN DbStep(i, Finish(t, RetId(t.sid)), db_rows, next_id)
          ELSE DbStep(i, [t EXCEPT !.pc = "sweep_commit", !.todo = expired_sessions],
                      db_rows, next_id)

\* lines 288-291: is_active is cleared on every selected row and committed;
\* create_session line 59 returns the id
DbSweepCommit(i) ==
    LET t == threads[i]
        selected == {t.todo[k] : k \in DOMAIN t.todo}
    IN /\ t.pc = "sweep_commit"
       /\ DbStep(i, Finish(t, RetId(t.sid)),
                 [sid \in DOMAIN db_rows |->
                     IF sid \in selected THEN [db_rows[sid] EXCEPT !.is_active = FALSE]
                     ELSE db_rows[sid]],
                 next_id)

\* get_session lines 63-88: the query
DbGetQuery(i, sid) ==
    /\ threads[i].pc = "idle"
    /\ IF sid = NoId \/ ~ActiveRow(db_rows, sid)
       THEN DbStep(i, Idle("get", sid, RetNone), db_rows, next_id)
       ELSE DbStep(i, [Idle("get", sid, NotCalled) EXCEPT
                           !.pc = "get_check", !.row = db_rows[sid]],
                   db_rows, next_id)

\* lines 91-96: is_expired() reads the clock against the loaded row; a live
\* row gets its last_accessed assigned
DbGetCheck(i) ==
    LET t == threads[i] IN
    /\ t.pc = "get_check"
    /\ IF IsExpired(t.row, now)
       THEN DbStep(i, [t EXCEPT !.pc = "get_delete"], db_rows, next_id)
       ELSE DbStep(i, [t EXCEPT !.pc = "get_commit", !.row.last_accessed = now],
                   db_rows, next_id)

\* line 92, delete_session lines 135-140: is_active is cleared and committed
DbGetDelete(i) ==
    LET t == threads[i] IN
    /\ t.pc = "get_delete"
    /\ DbStep(i, Finish(t, RetNone), [db_rows EXCEPT ![t.sid].is_active = FALSE],
              next_id)

\* lines 106-115: last_accessed is committed and the loaded row returned
DbGetCommit(i) ==
    LET t == threads[i] IN
    /\ t.pc = "get_commit"
    /\ DbStep(i, Finish(t, RetSession([user_email |-> t.row.user_email,
                                       created_at |-> t.row.created_at,
                                       expires_at |-> t.row.expires_at,
                                       last_accessed |-> t.row.last_accessed])),
              [db_rows EXCEPT ![t.sid].last_accessed = t.row.last_accessed], next_id)

\* extend_session lines 146-172: the query
DbExtendQuery(i, sid, minutes) ==
    /\ threads[i].pc = "idle"
    /\ IF sid = NoId \/ ~ActiveRow(db_rows, sid)
       THEN DbStep(i, Idle("extend", sid, RetBool(FALSE)), db_rows, next_id)
       ELSE DbStep(i, [Idle("extend", sid, NotCalled) EXCEPT
                           !.pc = "extend_check", !.row = db_rows[sid],
                           !.minutes = minutes],
                   db_rows, next_id)

\* line 173: is_expired() reads the clock against the loaded row
DbExtendCheck(i) ==
    LET t == threads[i] IN
    /\ t.pc = "extend_check"
    /\ IF IsExpired(t.row, now)
       THEN DbStep(i, Finish(t, RetBool(FALSE)), db_rows, next_id)
       ELSE DbStep(i, [t EXCEPT !.pc = "extend_assign"], db_rows, next_id)

\* line 174: Session.extend_session reads the clock and assigns the two columns
DbExtendAssign(i) ==
    LET t == threads[i] IN
    /\ t.pc = "extend_assign"
    /\ DbStep(i, [t EXCEPT !.pc = "extend_commit",
                           !.row = ModelExtendSession(t.row, t.minutes, now)],
              db_rows, next_id)

\* lines 175-177: the two columns are committed; True is returned
DbExtendCommit(i) ==
    LET t == threads[i] IN
    /\ t.pc = "extend_commit"
    /\ DbStep(i, Finish(t, RetBool(TRUE)),
              [db_rows EXCEPT ![t.sid].expires_at = t.row.expires_at,
                              ![t.sid].last_accessed = t.row.last_accessed],
              next_id)

\* The persistent store called from several threads: create with its sweep,
\* get and extend.
NextInterleaved ==
    \/ TickThreads
    \/ \E i \in Threads :
          \/ \E email \in Emails, minutes \in Minutes : DbCreateInsert(i, email, minutes)
          \/ DbSweepQuery(i)
          \/ DbSweepCommit(i)
          \/ \E sid \in SessionIds : DbGetQuery(i, sid)
          \/ DbGetCheck(i)
          \/ DbGetDelete(i)
          \/ DbGetCommit(i)
          \/ \E sid \in SessionIds, minutes \in Minutes : DbExtendQuery(i, sid, minutes)
          \/ DbExtendCheck(i)
          \/ DbExtendAssign(i)
          \/ DbExtendCommit(i)
SpecInterleaved == Init /\ [][NextInterleaved]_vars

\* =================================================================== claims

Created == 1..(next_id - 1)
Presented(c) == IF c.cookie # NoId THEN c.cookie ELSE c.header

\* what a caller can tell from a returned value
Visible(ret) ==
    CASE ret.kind = "session" -> [kind |-> "session", principal |-> ret.data.user_email]
      [] ret.kind = "list" -> [kind |-> "list", ids |-> {s.session_id : s \in ret.sessions}]
      [] OTHER -> ret

\* a row compared up to its last_accessed stamp
SameButLastAccessed(a, b) == [a EXCEPT !.last_accessed = b.last_accessed] = b

\* C1: liveness monotonicity, in both backends: a created record that is not
\* live (expired or revoked) is not live after any later step, whatever the
\* step is (get, extend, list, revoke, revoke-all, create with its sweep, or a
\* clock advance).
C1_LivenessMonotonic ==
    [][\A sid \in Created :
          /\ ~MemLive(mem_sessions, sid, now) => ~MemLive(mem_sessions', sid, now')
          /\ ~DbLive(db_rows, sid, now) => ~DbLive(db_rows', sid, now')]_vars

\* C2: extend(id, minutes) on a record that is absent, revoked or expired
\* returns false and changes no record, in both backends, also when the expired
\* record is still stored.
C2_ExtendDeadIsNoop ==
    [][call'.op = "extend" =>
          /\ ~MemLive(mem_sessions, call'.sid, now) =>
                (mem_ret' = RetBool(FALSE) /\ mem_sessions' = mem_sessions)
          /\ ~DbLive(db_rows, call'.sid, now) =>
                (db_ret' = RetBool(FALSE) /\ db_rows' = db_rows)]_vars

\* C3: revoke idempotence, in both backends: once revoke(id) has returned true,
\* every later revoke(id) returns false.
C3_RevokeTrueOnce ==
    [][call'.op = "revoke" =>
          /\ call'.sid \in mem_revoked => mem_ret' = RetBool(FALSE)
          /\ call'.sid \in db_revoked => db_ret' = RetBool(FALSE)]_vars

\* C4: backend equivalence: the same store call, after the same history of
\* store calls and clock advances, returns the same caller-visible result on the
\* volatile and on the persistent backend.
C4_BackendEquivalence == Visible(mem_ret) = Visible(db_ret)

\* C5 as stated: get(id) returns a record iff the record exists, is active and
\* now < expires_at (strictly).
C5_GetIffStrictlyBeforeExpiry ==
    [][call'.op = "get" =>
          /\ (db_ret'.kind = "session") <=>
                (/\ call'.sid \in DOMAIN db_rows
                 /\ db_rows[call'.sid].is_active
                 /\ now < db_rows[call'.sid].expires_at)
          /\ (mem_ret'.kind = "session") <=>
                (/\ call'.sid \in DOMAIN mem_sessions
                 /\ now < mem_sessions[call'.sid].expires_at)]_vars

\* C5 as amended: get(id) returns a record iff the record exists, is active
\* (in the volatile backend: is still stored) and now <= expires_at; the test
\* uses the clock of the call, and the record returned is that id's, with its
\* principal.
C5_GetIffNotPastExpiry ==
    [][call'.op = "get" =>
          /\ (db_ret'.kind = "session") <=>
                (/\ call'.sid \in DOMAIN db_rows
                 /\ db_rows[call'.sid].is_active
                 /\ now <= db_rows[call'.sid].expires_at)
          /\ db_ret'.kind = "session" =>
                db_ret'.data.user_email = db_rows[call'.sid].user_email
          /\ (mem_ret'.kind = "session") <=>
                (/\ call'.sid \in DOMAIN mem_sessions
                 /\ now <= mem_sessions[call'.sid].expires_at)
          /\ mem_ret'.kind = "session" =>
                mem_ret'.data.user_email = mem_sessions[call'.sid].user_email]_vars

\* C5 witness: a get at the very instant now = expires_at returned the record,
\* on both backends.
C5_Witness ==
    /\ call.op = "get"
    /\ db_ret.kind = "session"
    /\ mem_ret.kind = "session"
    /\ now = db_rows[call.sid].expires_at
    /\ now = mem_sessions[call.sid].expires_at

\* C6: self-termination guard: terminate-session with the acting session's own
\* id as target is rejected with the use-logout signal, leaves that session live
\* and changes no record apart from last_accessed.
C6_SelfTerminationRejected ==
    [][(/\ call'.op = "terminate"
        /\ call'.sid = call'.cookie
        /\ DbLive(db_rows, call'.cookie, now)) =>
          /\ http' = UseLogoutInstead
          /\ DbLive(db_rows', call'.cookie, now')
          /\ DOMAIN db_rows' = DOMAIN db_rows
          /\ \A sid \in DOMAIN db_rows :
                SameButLastAccessed(db_rows'[sid], db_rows[sid])]_vars

\* C6 witness: an authenticated caller holding two stored sessions named its own
\* current session as the target and got the use-logout rejection.
C6_Witness ==
    /\ call.op = "terminate"
    /\ call.sid = call.cookie
    /\ http = UseLogoutInstead
    /\ DbLive(db_rows, call.cookie, now)
    /\ Cardinality(DOMAIN db_rows) > 1

\* C7: ownership violation: terminate-session by an authenticated caller on a
\* target that is live but owned by another principal yields the very signal a
\* never-created target id yields (not found), and leaves the target record as
\* it was.
C7_ForeignTargetIsNotFound ==
    [][(/\ call'.op = "terminate"
        /\ DbLive(db_rows, call'.cookie, now)) =>
          /\ call'.sid \notin DOMAIN db_rows => http' = SessionNotFound
          /\ (/\ DbLive(db_rows, call'.sid, now)
              /\ db_rows[call'.sid].user_email # db_rows[call'.cookie].user_email) =>
                (/\ http' = SessionNotFound
                 /\ db_rows'[call'.sid] = db_rows[call'.sid])]_vars

\* C7 witness: an authenticated caller named another principal's live session
\* as the target and got not-found.
C7_Witness ==
    /\ call.op = "terminate"
    /\ http = SessionNotFound
    /\ DbLive(db_rows, call.cookie, now)
    /\ DbLive(db_rows, call.sid, now)
    /\ db_rows[call.sid].user_email # db_rows[call.cookie].user_email

\* C8: uniform rejection: a presented non-empty id that is not live is answered
\* with the one invalid-or-expired signal, whether it never existed, has expired
\* or was revoked; the guard yields {principal, session id} exactly when the id
\* is live; no id at all is answered unauthenticated.  The companion guard of
\* terminate-session rejects a non-live cookie with the same signal.
C8_UniformRejection ==
    [][/\ call'.op = "authenticate" =>
            /\ Presented(call') = NoId => http' = Unauthenticated
            /\ (Presented(call') # NoId /\ ~DbLive(db_rows, Presented(call'), now)) =>
                  http' = InvalidOrExpired
            /\ (Presented(call') # NoId /\ DbLive(db_rows, Presented(call'), now)) =>
                  http' = Authenticated(db_rows[Presented(call')].user_email,
                                        Presented(call'))
       /\ (/\ call'.op = "terminate"
           /\ call'.cookie # NoId
           /\ ~DbLive(db_rows, call'.cookie, now)) => http' = InvalidOrExpired]_vars

\* C8 witness: the guard has rejected, as invalid or expired, a stored id that
\* was revoked while its expiry still lay ahead.
C8_Witness ==
    /\ call.op = "authenticate"
    /\ http = InvalidOrExpired
    /\ Presented(call) \in DOMAIN db_rows
    /\ ~db_rows[Presented(call)].is_active
    /\ now <= db_rows[Presented(call)].expires_at

\* C9: isolation across principals: revokeAllByPrincipal(p) leaves every record
\* of every other principal in place with all its fields, hence its liveness, in
\* both backends.
C9_RevokeAllIsolation ==
    [][call'.op = "revokeAll" =>
          /\ \A sid \in DOMAIN mem_sessions :
                mem_sessions[sid].user_email # call'.email =>
                    /\ sid \in DOMAIN mem_sessions'
                    /\ mem_sessions'[sid] = mem_sessions[sid]
                    /\ MemLive(mem_sessions', sid, now') = MemLive(mem_sessions, sid, now)
          /\ \A sid \in DOMAIN db_rows :
                db_rows[sid].user_email # call'.email =>
                    /\ sid \in DOMAIN db_rows'
                    /\ db_rows'[sid] = db_rows[sid]
                    /\ DbLive(db_rows', sid, now') = DbLive(db_rows, sid, now)]_vars

\* C9 witness: a revoke-all that retired records of p on both backends while a
\* record of another principal is live on both.
C9_Witness ==
    /\ call.op = "revokeAll"
    /\ db_ret.n > 0
    /\ mem_ret.n > 0
    /\ \E sid \in DOMAIN db_rows :
          /\ db_rows[sid].user_email # call.email
          /\ DbLive(db_rows, sid, now)
          /\ MemLive(mem_sessions, sid, now)

\* C10 as stated: revokeAllByPrincipal(p) returns the number of records of p
\* that were live just before the call (what listByPrincipal(p) would have
\* returned), and listByPrincipal(p) is empty right afterwards.
C10_RevokeAllCountsLive ==
    [][call'.op = "revokeAll" =>
          /\ mem_ret' = RetCount(Cardinality(MemGetUserSessions(mem_sessions, call'.email, now)))
          /\ db_ret' = RetCount(Cardinality(DbGetUserSessions(db_rows, call'.email, now)))
          /\ MemGetUserSessions(mem_sessions', call'.email, now') = {}
          /\ DbGetUserSessions(db_rows', call'.email, now') = {}]_vars

\* C10 as amended: revokeAllByPrincipal(p) returns the number of records of p
\* that were still stored as active just before the call (the live ones and the
\* expired ones no sweep or lookup has retired yet), and listByPrincipal(p) is
\* empty right afterwards.
C10_RevokeAllCountsActive ==
    [][call'.op = "revokeAll" =>
          /\ mem_ret' = RetCount(Cardinality(
                {sid \in DOMAIN mem_sessions :
                    mem_sessions[sid].user_email = call'.email}))
          /\ db_ret' = RetCount(Cardinality(
                {sid \in DOMAIN db_rows :
                    db_rows[sid].user_email = call'.email /\ db_rows[sid].is_active}))
          /\ MemGetUserSessions(mem_sessions', call'.email, now') = {}
          /\ DbGetUserSessions(db_rows', call'.email, now') = {}]_vars

\* C10 witness: two records of one principal revoked by one call, one of them
\* expired and not yet retired.
C10_Witness ==
    /\ call.op = "revokeAll"
    /\ db_ret = RetCount(2)
    /\ mem_ret = RetCount(2)
    /\ \E sid \in DOMAIN db_rows :
          db_rows[sid].user_email = call.email /\ db_rows[sid].expires_at < now
    /\ \E sid \in DOMAIN db_rows :
          db_rows[sid].user_email = call.email /\ db_rows[sid].expires_at >= now

\* what a list entry shows of the record it stands for
Summary(sid, rec) ==
    [session_id |-> sid, created_at |-> rec.created_at,
     last_accessed |-> rec.last_accessed, expires_at |-> rec.expires_at]

\* C11: listByPrincipal(p) returns exactly the records of p that are live at
\* the time of the call (stored, not revoked, expiry not passed), each shown
\* with its own fields, never a revoked or expired record that is still
\* stored; and it changes no field of any record, last_accessed included.
C11_ListExactlyLive ==
    [][call'.op = "list" =>
          /\ mem_ret' = RetList({Summary(sid, mem_sessions[sid]) :
                sid \in {x \in DOMAIN mem_sessions :
                            /\ mem_sessions[x].user_email = call'.email
                            /\ now <= mem_sessions[x].expires_at}})
          /\ db_ret' = RetList({Summary(sid, db_rows[sid]) :
                sid \in {x \in DOMAIN db_rows :
                            /\ db_rows[x].user_email = call'.email
                            /\ db_rows[x].is_active
                            /\ now <= db_rows[x].expires_at}})
          /\ mem_sessions' = mem_sessions
          /\ db_rows' = db_rows]_vars

\* C11 witness: a list call that returned one record of p on both backends
\* while another record of p was still stored but revoked or expired.
C11_Witness ==
    /\ call.op = "list"
    /\ Cardinality(db_ret.sessions) = 1
    /\ Cardinality(mem_ret.sessions) = 1
    /\ \E sid \in DOMAIN db_rows :
          /\ db_rows[sid].user_email = call.email
          /\ ~db_rows[sid].is_active \/ db_rows[sid].expires_at < now

\* C14: extend is absolute: a successful extend(id, m) on a live record sets
\* expires_at to exactly now + m whatever it was before, in both backends, so
\* an extend(id, m) that directly follows the same extend(id, m), the clock not
\* having advanced, leaves expires_at as the first one set it.
C14_ExtendIsAbsolute ==
    [][call'.op = "extend" =>
          /\ MemLive(mem_sessions, call'.sid, now) =>
                /\ mem_ret' = RetBool(TRUE)
                /\ mem_sessions'[call'.sid].expires_at = now + Timedelta(call'.minutes)
                /\ (call = call' /\ mem_ret = RetBool(TRUE)) =>
                      mem_sessions'[call'.sid].expires_at
                          = mem_sessions[call'.sid].expires_at
          /\ DbLive(db_rows, call'.sid, now) =>
                /\ db_ret' = RetBool(TRUE)
                /\ db_rows'[call'.sid].expires_at = now + Timedelta(call'.minutes)
                /\ (call = call' /\ db_ret = RetBool(TRUE)) =>
                      db_rows'[call'.sid].expires_at = db_rows[call'.sid].expires_at]_vars

\* C14 witness: an extend has succeeded on both backends on a record created
\* at an earlier instant, whose expiry was therefore not now + m before.
C14_Witness ==
    /\ call.op = "extend"
    /\ mem_ret = RetBool(TRUE)
    /\ db_ret = RetBool(TRUE)
    /\ db_rows[call.sid].created_at < now
    /\ db_rows[call.sid].expires_at = now + Timedelta(call.minutes)
    /\ mem_sessions[call.sid].expires_at = now + Timedelta(call.minutes)

\* the minutes value of an extend request lies in the admitted range
InRange(body) == body.is_int /\ body.v >= MinExtendMinutes /\ body.v <= MaxExtendMinutes

\* C12: extend range validation: a request of an authenticated caller to the
\* extend operation whose minutes value is outside 5..480, or not an integer,
\* is answered with the validation failure, and no record's expires_at is
\* changed by it, whichever handler serves the route.
C12_ExtendRangeValidated ==
    [][(/\ call'.op = "extendRequest"
        /\ DbLive(db_rows, Presented(call'), now)
        /\ ~InRange(call'.body)) =>
          /\ http' = MinutesOutOfRange
          /\ \A sid \in DOMAIN db_rows :
                db_rows'[sid].expires_at = db_rows[sid].expires_at]_vars

\* C13: an authenticated caller with a live current session who asks to extend
\* by m minutes, m in 5..480, gets a success confirmation and the current
\* session's expires_at becomes now + m.
C13_ExtendAppliesRequestedMinutes ==
    [][(/\ call'.op = "extendRequest"
        /\ DbLive(db_rows, Presented(call'), now)
        /\ InRange(call'.body)) =>
          /\ http'.status = 200
          /\ db_rows'[Presented(call')].expires_at = now + Timedelta(call'.body.v)]_vars

\* C15: the companion guard of terminate-session takes the acting session from
\* the cookie or from the X-Session-ID header, like the main guard: a
\* terminate request that carries a live session id in the header only is
\* answered as the same request with that id in the cookie would be, and is
\* not rejected as unauthenticated.
C15_CompanionGuardReadsHeader ==
    [][(/\ call'.op = "terminate"
        /\ call'.cookie = NoId
        /\ DbLive(db_rows, call'.header, now)) =>
          /\ http' # Unauthenticated
          /\ http' = TerminateSession(db_rows, call'.header, call'.sid, now).resp]_vars

\* the record a create of that principal and lifetime inserts at instant t
NewRecord(email, minutes, t) ==
    [user_email |-> email, created_at |-> t, expires_at |-> t + Timedelta(minutes),
     last_accessed |-> t]

\* create inserts exactly one new record, of the given principal, active, with
\* expires_at = now + ttl, ttl being 30 minutes when none is given
CreateInsertsOne ==
    call'.op \in {"create", "createDefault"} =>
        LET sid == call'.sid
            ttl == IF call'.op = "createDefault" THEN 30 ELSE call'.minutes
        IN /\ mem_ret' = RetId(sid) /\ db_ret' = RetId(sid)
           /\ sid \notin DOMAIN mem_sessions /\ sid \notin DOMAIN db_rows
           /\ (DOMAIN mem_sessions') \ (DOMAIN mem_sessions) = {sid}
           /\ (DOMAIN db_rows') \ (DOMAIN db_rows) = {sid}
           /\ mem_sessions'[sid] = NewRecord(call'.email, ttl, now)
           /\ db_rows'[sid] = [user_email |-> call'.email, created_at |-> now,
                               expires_at |-> now + Timedelta(ttl),
                               last_accessed |-> now, is_active |-> TRUE]

\* the instant now + ttl of the create that made the record
Deadline(sid) ==
    life.born[sid].at + Timedelta(IF life.born[sid].ttl = NoMinutes THEN 30
                                  ELSE life.born[sid].ttl)

\* get(sid) returns the principal the record was created for, in both backends
GetReturnsPrincipal(sid) ==
    LET m == MemGetSession(mem_sessions, sid, now).ret
        d == DbGetSession(db_rows, sid, now).ret
    IN /\ m.kind = "session" /\ m.data.user_email = life.born[sid].principal
       /\ d.kind = "session" /\ d.data.user_email = life.born[sid].principal

GetReturnsAbsent(sid) ==
    /\ MemGetSession(mem_sessions, sid, now).ret = RetNone
    /\ DbGetSession(db_rows, sid, now).ret = RetNone

\* C17 as stated: create(principal, ttl) inserts exactly one new record with
\* that principal, active, expires_at = now + ttl (30 minutes when none is
\* given); get(id) returns that principal at every instant before now + ttl
\* provided no revoke occurs, and absent once the clock is past now + ttl.
C17_CreateThenGetUntilTtl ==
    /\ [][CreateInsertsOne]_vars
    /\ [](\A sid \in DOMAIN life.born :
            /\ (sid \notin life.revoked /\ now < Deadline(sid)) => GetReturnsPrincipal(sid)
            /\ now > Deadline(sid) => GetReturnsAbsent(sid))

\* C17 as amended: the same, for a record no extend has been applied to: get(id)
\* returns the principal at every instant before now + ttl provided no revoke
\* and no extend occurs, and absent once the clock is past now + ttl provided
\* no extend occurred.
C17_CreateThenGetUntilTtlUnlessExtended ==
    /\ [][CreateInsertsOne]_vars
    /\ [](\A sid \in (DOMAIN life.born) \ life.extended :
            /\ (sid \notin life.revoked /\ now < Deadline(sid)) => GetReturnsPrincipal(sid)
            /\ now > Deadline(sid) => GetReturnsAbsent(sid))

\* C17 witness: of two records never extended nor revoked, one created with
\* the default lifetime is returned by get before its deadline and one created
\* with a given lifetime is absent after its deadline.
C17_Witness ==
    \E s1, s2 \in (DOMAIN life.born) \ (life.extended \cup life.revoked) :
        /\ life.born[s1].ttl = NoMinutes
        /\ now > life.born[s1].at
        /\ now < Deadline(s1)
        /\ GetReturnsPrincipal(s1)
        /\ life.born[s2].ttl # NoMinutes
        /\ now > Deadline(s2)
        /\ GetReturnsAbsent(s2)

\* the credentials of a login are those of a registered account
ValidCredentials(c) == c.email \in Emails /\ c.password = PasswordOf(c.email)

\* C18: the login operation creates a session record only after the supplied
\* password has verified against the stored digest of an existing account: a
\* login with an unknown email or a wrong password is rejected, hands out no
\* session id, draws none, and leaves the store unchanged.
C18_LoginCreatesOnlyAfterVerification ==
    [][call'.op = "login" =>
          /\ (db_ret' # NotCalled \/ db_rows' # db_rows) => ValidCredentials(call')
          /\ ~ValidCredentials(call') =>
                /\ http' = InvalidEmailOrPassword
                /\ db_rows' = db_rows
                /\ mem_sessions' = mem_sessions
                /\ next_id' = next_id]_vars

\* C18 witness: a login with a wrong password for a registered account has
\* been rejected while that account holds a live session from an earlier login.
C18_Witness ==
    /\ call.op = "login"
    /\ call.email \in Emails
    /\ call.password # PasswordOf(call.email)
    /\ http = InvalidEmailOrPassword
    /\ \E sid \in DOMAIN db_rows :
          db_rows[sid].user_email = call.email /\ DbLive(db_rows, sid, now)

\* C19: after a successful logout or logout-all, the acting session id no
\* longer authenticates: at every later instant a request presenting it, in the
\* cookie or in the header, is rejected by the guard as invalid or expired.
C19_LoggedOutIdNeverAuthenticates ==
    \A sid \in life.logged_out \cup life.logged_out_all :
        /\ GetCurrentUserSession(db_rows, sid, NoId, now).resp = InvalidOrExpired
        /\ GetCurrentUserSession(db_rows, NoId, sid, now).resp = InvalidOrExpired

\* C19 witness: with one session logged out and another one used for a
\* logout-all, a request presenting the latter before its expiry has been
\* rejected as invalid or expired.
C19_Witness ==
    /\ call.op = "authenticate"
    /\ http = InvalidOrExpired
    /\ Presented(call) \in life.logged_out_all
    /\ life.logged_out \ life.logged_out_all # {}
    /\ now <= db_rows[Presented(call)].expires_at

\* C20: storage failure on create, persistent backend: if the write of the new
\* row fails, create raises, no id reaches the caller (the login answers with
\* its internal error and no session id), the table is unchanged, and at every
\* later instant the generated id is absent for get and in no principal's list.
C20_FailedCreateLeavesNothing ==
    /\ [][(call'.op = "login" /\ ValidCredentials(call') /\ ~call'.commit_ok) =>
             /\ db_ret' = RetRaised
             /\ http' = LoginInternalError
             /\ db_rows' = db_rows]_vars
    /\ [](\A sid \in life.failed :
             /\ DbGetSession(db_rows, sid, now).ret = RetNone
             /\ \A email \in Emails :
                   sid \notin {s.session_id : s \in DbGetUserSessions(db_rows, email, now)})

\* C20 witness: a request presenting the id of a failed create has been
\* rejected while the same principal holds a live session from a later login.
C20_Witness ==
    /\ call.op = "authenticate"
    /\ Presented(call) \in life.failed
    /\ http = InvalidOrExpired
    /\ \E sid \in DOMAIN db_rows : DbLive(db_rows, sid, now)

\* C27: the persistent backend's reclamation pass runs on every create and
\* marks inactive exactly the rows that are flagged active and whose
\* expires_at has passed; every other row, live or already inactive, keeps
\* all its fields.
C27_EagerSweepRetiresExactlyExpired ==
    [][call'.op = "create" =>
          \A sid \in DOMAIN db_rows :
              /\ sid \in DOMAIN db_rows'
              /\ db_rows'[sid] =
                    IF db_rows[sid].is_active /\ db_rows[sid].expires_at < now
                    THEN [db_rows[sid] EXCEPT !.is_active = FALSE]
                    ELSE db_rows[sid]]_vars

\* C27 witness: after a create, another row that no revoke call named and no
\* lookup touched stands retired, its expiry passed.
C27_Witness ==
    /\ call.op = "create"
    /\ db_revoked = {}
    /\ \E sid \in DOMAIN db_rows :
          /\ sid # call.sid
          /\ ~db_rows[sid].is_active
          /\ db_rows[sid].expires_at < now
          /\ db_rows[sid].last_accessed = db_rows[sid].created_at

\* C28: cleanup-on-read: a get that finds a stored record which has expired
\* while still flagged active terminates it in the same call (inactive in the
\* persistent backend, removed in the volatile one) and returns absent; a get
\* on a live record returns it and changes only its last_accessed.
C28_CleanupOnRead ==
    [][(call'.op = "get" /\ call'.sid # NoId) =>
          LET sid == call'.sid IN
          /\ (sid \in DOMAIN db_rows /\ db_rows[sid].is_active
                /\ now > db_rows[sid].expires_at) =>
                /\ db_ret' = RetNone
                /\ db_rows' = [db_rows EXCEPT ![sid].is_active = FALSE]
          /\ DbLive(db_rows, sid, now) =>
                /\ db_ret'.kind = "session"
                /\ db_rows' = [db_rows EXCEPT ![sid].last_accessed = now]
          /\ (sid \in DOMAIN mem_sessions /\ now > mem_sessions[sid].expires_at) =>
                /\ mem_ret' = RetNone
                /\ mem_sessions' = Remove(mem_sessions, {sid})
          /\ MemLive(mem_sessions, sid, now) =>
                /\ mem_ret'.kind = "session"
                /\ mem_sessions' = [mem_sessions EXCEPT ![sid].last_accessed = now]]_vars

\* C28 witness: the only record ever created, which no revoke call named, has
\* expired and a get of it has returned absent; it is inactive in the
\* persistent backend and gone from the volatile one.
C28_Witness ==
    /\ call.op = "get"
    /\ next_id = 2
    /\ db_revoked = {} /\ mem_revoked = {}
    /\ mem_ret = RetNone /\ db_ret = RetNone
    /\ call.sid \in DOMAIN db_rows
    /\ ~db_rows[call.sid].is_active
    /\ db_rows[call.sid].expires_at < now
    /\ call.sid \notin DOMAIN mem_sessions

\* C29: field frame: a stored record's principal and created_at are those its
\* create gave it and are changed by no step; its expires_at is changed by no
\* step other than a successful extend of that very id (get, revoke,
\* revoke-all, list, create with its sweep and the clock leave it as it is).
C29_FieldFrame ==
    [][/\ call'.op = "create" =>
            /\ mem_sessions'[call'.sid].user_email = call'.email
            /\ mem_sessions'[call'.sid].created_at = now
            /\ db_rows'[call'.sid].user_email = call'.email
            /\ db_rows'[call'.sid].created_at = now
       /\ \A sid \in (DOMAIN mem_sessions) \cap (DOMAIN mem_sessions') :
            /\ mem_sessions'[sid].user_email = mem_sessions[sid].user_email
            /\ mem_sessions'[sid].created_at = mem_sessions[sid].created_at
            /\ mem_sessions'[sid].expires_at # mem_sessions[sid].expires_at =>
                  (call'.op = "extend" /\ call'.sid = sid /\ mem_ret' = RetBool(TRUE))
       /\ \A sid \in (DOMAIN db_rows) \cap (DOMAIN db_rows') :
            /\ db_rows'[sid].user_email = db_rows[sid].user_email
            /\ db_rows'[sid].created_at = db_rows[sid].created_at
            /\ db_rows'[sid].expires_at # db_rows[sid].expires_at =>
                  (call'.op = "extend" /\ call'.sid = sid /\ db_ret' = RetBool(TRUE))]_vars

\* C29 witness: a record that was looked up after its creation and then
\* extended stands next to one that was retired, each with its principal and
\* creation instant.
C29_Witness ==
    \E s1, s2 \in DOMAIN db_rows :
        /\ s1 \in DOMAIN mem_sessions
        /\ db_rows[s1].expires_at > db_rows[s1].created_at + Timedelta(MinExtendMinutes)
        /\ mem_sessions[s1].expires_at = db_rows[s1].expires_at
        /\ ~db_rows[s2].is_active
        /\ s2 \notin DOMAIN mem_sessions
        /\ call.op = "get" /\ call.sid = s1 /\ db_ret.kind = "session"

\* C30: source precedence in the guard: when a request carries a cookie, only
\* the cookie's id is resolved through the store and the header's id is
\* neither looked up nor touched; the header is used only when the cookie is
\* absent.  So a request with a non-live cookie id and a live header id is
\* rejected as invalid or expired.
C30_CookieTakesPrecedence ==
    [][call'.op = "authenticate" =>
          /\ call'.cookie # NoId =>
                /\ http' = GetCurrentUserSession(db_rows, call'.cookie, NoId, now).resp
                /\ db_rows' = DbGetSession(db_rows, call'.cookie, now).rows
                /\ ~DbLive(db_rows, call'.cookie, now) => http' = InvalidOrExpired
          /\ call'.cookie = NoId =>
                http' = GetCurrentUserSession(db_rows, NoId, call'.header, now).resp]_vars

\* C30 witness: a request with a non-live cookie id and another, live id in
\* the header has been rejected as invalid or expired.
C30_Witness ==
    /\ call.op = "authenticate"
    /\ call.cookie # NoId
    /\ call.header # call.cookie
    /\ ~DbLive(db_rows, call.cookie, now)
    /\ DbLive(db_rows, call.header, now)
    /\ http = InvalidOrExpired

\* C25 as stated: a successful extend(id, m) moves expires_at forward: for a
\* live record and m in 5..480, expires_at after the call is never earlier
\* than expires_at before the call, in both backends.
C25_ExtendMovesExpiryForward ==
    [][(call'.op = "extend" /\ call'.minutes >= MinExtendMinutes
            /\ call'.minutes <= MaxExtendMinutes) =>
          /\ (MemLive(mem_sessions, call'.sid, now) /\ mem_ret' = RetBool(TRUE)) =>
                mem_sessions'[call'.sid].expires_at >= mem_sessions[call'.sid].expires_at
          /\ (DbLive(db_rows, call'.sid, now) /\ db_ret' = RetBool(TRUE)) =>
                db_rows'[call'.sid].expires_at >= db_rows[call'.sid].expires_at]_vars

\* C25 as amended: a successful extend(id, m) on a live record, m in 5..480,
\* sets expires_at to now + m, never earlier than the instant of the call; the
\* new expires_at is not earlier than the previous one exactly when m is at
\* least the lifetime the record had left.
C25_ExtendMovesExpiryToNowPlusMinutes ==
    [][(call'.op = "extend" /\ call'.minutes >= MinExtendMinutes
            /\ call'.minutes <= MaxExtendMinutes) =>
          /\ (MemLive(mem_sessions, call'.sid, now) /\ mem_ret' = RetBool(TRUE)) =>
                /\ mem_sessions'[call'.sid].expires_at = now + Timedelta(call'.minutes)
                /\ mem_sessions'[call'.sid].expires_at >= now
                /\ (mem_sessions'[call'.sid].expires_at >= mem_sessions[call'.sid].expires_at)
                      <=> (Timedelta(call'.minutes) >= mem_sessions[call'.sid].expires_at - now)
          /\ (DbLive(db_rows, call'.sid, now) /\ db_ret' = RetBool(TRUE)) =>
                /\ db_rows'[call'.sid].expires_at = now + Timedelta(call'.minutes)
                /\ db_rows'[call'.sid].expires_at >= now
                /\ (db_rows'[call'.sid].expires_at >= db_rows[call'.sid].expires_at)
                      <=> (Timedelta(call'.minutes) >= db_rows[call'.sid].expires_at - now)]_vars

\* C25 witness: after a successful extend, a record created with the default
\* lifetime expires earlier than its creation had set, on both backends.
C25_Witness ==
    /\ call.op = "extend"
    /\ mem_ret = RetBool(TRUE) /\ db_ret = RetBool(TRUE)
    /\ call.sid \in DOMAIN life.born
    /\ life.born[call.sid].ttl = NoMinutes
    /\ db_rows[call.sid].expires_at = now + Timedelta(call.minutes)
    /\ db_rows[call.sid].expires_at < Deadline(call.sid)
    /\ mem_sessions[call.sid].expires_at < Deadline(call.sid)

\* C26: volatile reclamation is time-gated: the sweep made by create or by the
\* session count removes the expired records, and only those, if at least 300
\* seconds have passed since the last sweep that ran (at first, since the
\* store was built), and then notes the instant; otherwise it removes nothing
\* and leaves the last-sweep instant as it was.  So two sweeps that run are at
\* least 300 seconds apart.
C26_SweepIsTimeGated ==
    [][/\ call'.op \in {"create", "count"} =>
            LET before == IF call'.op = "create"
                          THEN DOMAIN mem_sessions \cup {call'.sid}
                          ELSE DOMAIN mem_sessions
                expired == {sid \in DOMAIN mem_sessions :
                                now > mem_sessions[sid].expires_at}
            IN IF now - last_cleanup >= 300
               THEN /\ last_cleanup' = now
                    /\ DOMAIN mem_sessions' = before \ expired
               ELSE /\ last_cleanup' = last_cleanup
                    /\ DOMAIN mem_sessions' = before
       /\ last_cleanup' # last_cleanup => last_cleanup' - last_cleanup >= 300]_vars

\* C26 witness: a create found the gate closed, a sweep having run less than
\* 300 seconds before, and left an expired record in the store.
C26_Witness ==
    /\ call.op = "create"
    /\ last_cleanup > 0
    /\ now - last_cleanup < 300
    /\ \E sid \in DOMAIN mem_sessions : now > mem_sessions[sid].expires_at

\* C21: credential verification never raises: verify(password, digest) returns
\* true when digest = hash(password) and false, as a value, for every other
\* digest, a malformed one included; so a login against an account whose
\* stored digest does not match is answered invalid-credentials, never with an
\* internal error.
C21_VerifyNeverRaises ==
    [][/\ call'.op = "verify" =>
            db_ret' = RetBool(call'.digest = GetPasswordHash(call'.password))
       /\ (/\ call'.op = "loginStored"
           /\ call'.email \in Emails
           /\ call'.digest # GetPasswordHash(call'.password)) =>
            http' = InvalidEmailOrPassword]_vars

\* C22: bearer tokens are independent of the session store.  A request that
\* presents an issued token is answered with the token's principal at every
\* instant before the token's expiry and is turned away at every instant after
\* it, whatever sessions the principal holds; and no create (with its sweep),
\* extend, revoke or revoke-all changes what verifying an issued token returns.
StoreOps == {"create", "extend", "revoke", "revokeAll"}
C22_TokensIndependentOfStore ==
    [][/\ (call'.op = "bearer" /\ call'.token \in tokens) =>
            LET claims == call'.token.claims
            IN /\ now < claims.exp =>
                    /\ db_ret' = RetSession([email |-> claims.sub, exp |-> claims.exp])
                    /\ http' = Authenticated(claims.sub, NoId)
               /\ now > claims.exp =>
                    /\ db_ret' = RetNone
                    /\ http' = CouldNotValidate
       /\ call'.op \in StoreOps =>
            \A token \in tokens : VerifyToken(token, now)' = VerifyToken(token, now)]_vars
\* a token has just verified to a principal whose only session was revoked
\* after the token was issued
C22_Witness ==
    /\ call.op = "bearer"
    /\ call.token \in tokens
    /\ db_ret = RetSession([email |-> call.token.claims.sub, exp |-> call.token.claims.exp])
    /\ \E sid \in db_revoked : db_rows[sid].user_email = call.token.claims.sub
    /\ \A sid \in DOMAIN db_rows :
          db_rows[sid].user_email = call.token.claims.sub => ~DbLive(db_rows, sid, now)

\* C23: reclamation is safe under concurrency in the volatile store: with the
\* sweep that create triggers interleaved, one dict access at a time, with the
\* operations of another thread, no operation ends in an error, and a create
\* that has returned has returned the id of the record it stored.
C23_SweepSafeUnderConcurrency ==
    \A i \in Threads :
        /\ threads[i].ret # RetRaised
        /\ (threads[i].pc = "idle" /\ threads[i].op = "create") =>
              threads[i].ret = RetId(threads[i].sid)

\* C24: the persistent store tolerates interleaving: with extend, get (with its
\* cleanup on read) and the sweep that create triggers run concurrently on the
\* same id, each as a query, a reading of the clock and a commit, no state holds
\* a row for which extend has returned true and whose expires_at lies in the
\* future, but which is inactive without ever having been revoked.
C24_InterleavingKeepsLiveness ==
    \A i \in Threads :
        (/\ threads[i].pc = "idle"
         /\ threads[i].op = "extend"
         /\ threads[i].ret = RetBool(TRUE)
         /\ threads[i].sid \notin db_revoked) =>
            ~(/\ db_rows[threads[i].sid].expires_at > now
              /\ ~db_rows[threads[i].sid].is_active)

====
